---- MODULE Spec2Model ----
(***************************************************************************)
(* Patch-list engine of revanced-gui: the text parser (utils.py), the      *)
(* applicability filter (worker_handlers.py), the selection reconciler and *)
(* the invocation compiler (gui.py), with the worker loop between them.    *)
(*                                                                         *)
(* Text is modelled as TLA+ strings, read character by character with      *)
(* Len, SubSeq and \o, so that formatting and parsing are computed and not *)
(* assumed.  An optional Python value (None or a value) is the empty       *)
(* sequence or a one-element sequence.                                     *)
(***************************************************************************)
EXTENDS Integers, Sequences, FiniteSets, TLC

(***************************************************************************)
(* Characters and the str methods the code uses                            *)
(***************************************************************************)
Ch(s, i) == SubSeq(s, i, i)

UpperAZ == "ABCDEFGHIJKLMNOPQRSTUVWXYZ"
LowerAZ == "abcdefghijklmnopqrstuvwxyz"
Digits09 == "0123456789"

UpperSet == {Ch(UpperAZ, i) : i \in 1..Len(UpperAZ)}
LowerSet == {Ch(LowerAZ, i) : i \in 1..Len(LowerAZ)}
DigitSet == {Ch(Digits09, i) : i \in 1..Len(Digits09)}

Min(S) == CHOOSE x \in S : \A y \in S : x <= y
Max(S) == CHOOSE x \in S : \A y \in S : x >= y

\* regex \s (the blank characters the modelled texts can hold)
SpaceSet == {" ", "\n", "\t"}
IsSpace(c) == c \in SpaceSet
\* regex [a-zA-Z0-9_]
WordSet == UpperSet \cup LowerSet \cup DigitSet \cup {"_"}

\* end of the run of characters of class C that starts at position i of s: the
\* first position >= i whose character is not in C, Len(s)+1 when there is none
RunEnd(s, i, C) == Min({k \in i..(Len(s) + 1) : k > Len(s) \/ Ch(s, k) \notin C})
\* regex \w
IsWordChar(c) == c \in WordSet

\* str.lower() on one character and on a string
LowerCh(c) ==
    IF c \in UpperSet
    THEN Ch(LowerAZ, CHOOSE i \in 1..Len(UpperAZ) : Ch(UpperAZ, i) = c)
    ELSE c

RECURSIVE LowerStr(_)
LowerStr(s) ==
    IF s = "" THEN "" ELSE LowerCh(Ch(s, 1)) \o LowerStr(SubSeq(s, 2, Len(s)))

\* first position >= i of s that holds no blank (Len(s)+1 when there is none)
SkipSpaces(s, i) == RunEnd(s, i, SpaceSet)

\* last position <= i of s that holds no blank (0 when there is none)
SkipSpacesBack(s, i) == Max({k \in 0..i : k = 0 \/ ~IsSpace(Ch(s, k))})

\* str.strip()
Strip(s) == SubSeq(s, SkipSpaces(s, 1), SkipSpacesBack(s, Len(s)))

\* position of the end of the line that holds position i: the next "\n" at or
\* after i, or Len(s)+1
LineEnd(s, i) == Min({k \in i..(Len(s) + 1) : k > Len(s) \/ Ch(s, k) = "\n"})

\* int() of a digit string and str() of a natural number
RECURSIVE StrToInt(_)
StrToInt(s) ==
    IF s = "" THEN 0
    ELSE 10 * StrToInt(SubSeq(s, 1, Len(s) - 1))
         + ((CHOOSE i \in 1..Len(Digits09) : Ch(Digits09, i) = Ch(s, Len(s))) - 1)

RECURSIVE IntToStr(_)
IntToStr(n) ==
    IF n < 10 THEN Ch(Digits09, n + 1)
    ELSE IntToStr(n \div 10) \o Ch(Digits09, (n % 10) + 1)

\* s.startswith(key, i-1); ci is the regex flag (?i)
StartsWithAt(s, i, key, ci) ==
    /\ i + Len(key) - 1 <= Len(s)
    /\ IF ci THEN /\ LowerCh(Ch(s, i)) = LowerCh(Ch(key, 1))
                  /\ LowerStr(SubSeq(s, i, i + Len(key) - 1)) = LowerStr(key)
             ELSE SubSeq(s, i, i + Len(key) - 1) = key

\* regex (?m)^ at position i
IsLineStart(s, i) == i = 1 \/ Ch(s, i - 1) = "\n"

\* regex (?m)^\s* ending right before position i: some line start p <= i has
\* only blanks between p and i
AtLineHead(s, i) ==
    \E p \in 1..i : IsLineStart(s, p) /\ \A k \in p..(i - 1) : IsSpace(Ch(s, k))

\* regex \s*$ under (?m) from position q: blanks, then the end of a line
BlankToLineEnd(s, q) == \A k \in q..(LineEnd(s, q) - 1) : IsSpace(Ch(s, k))

(***************************************************************************)
(* utils.py: _parse_patches                                                *)
(***************************************************************************)
\* the elements of a finite set of numbers, ascending
RECURSIVE Ascending(_)
Ascending(S) == IF S = {} THEN <<>> ELSE <<Min(S)>> \o Ascending(S \ {Min(S)})

\* for each start b of a piece of s, the position the piece ends before: the
\* first cut at or after b, or Len(s)+1
PieceEnds(s, starts, cuts) ==
    [b \in starts |-> Min({c \in cuts \cup {Len(s) + 1} : c >= b})]

\* re.split(r'\n{2,}', s): a separator is a maximal run of two or more "\n"; a
\* block starts at position 1 and after each separator and ends before the next
SepAt(s, i) == i < Len(s) /\ Ch(s, i) = "\n" /\ Ch(s, i + 1) = "\n"

SplitBlocks(s) ==
    LET seps == {i \in 1..Len(s) : SepAt(s, i) /\ (i = 1 \/ Ch(s, i - 1) # "\n")}
        starts == {1} \cup {RunEnd(s, i, {"\n"}) : i \in seps}
        ends == PieceEnds(s, starts, seps)
        order == Ascending(starts)
    IN  [n \in 1..Len(order) |-> SubSeq(s, order[n], ends[order[n]] - 1)]

\* a header key matched by (?m)^\s*key at position i
HeadAt(s, i, key, ci) == StartsWithAt(s, i, key, ci) /\ AtLineHead(s, i)

\* the group of  key\s*(.+?)\s*$  or  key\s*(.+)  for the key found at i, a its
\* end: the rest of the line of the first non-blank after the key (lazy: without
\* its trailing blanks); when only blanks follow, \s* gives one blank back to
\* the group, and there is no match when no blank but "\n" follows
LineGroup(s, a, lazy) ==
    LET j == SkipSpaces(s, a)
        blanks == {t \in a..Len(s) : Ch(s, t) # "\n"}
    IN  IF j <= Len(s)
        THEN <<SubSeq(s, j, IF lazy THEN SkipSpacesBack(s, LineEnd(s, j) - 1)
                                    ELSE LineEnd(s, j) - 1)>>
        ELSE IF blanks # {}
             THEN <<SubSeq(s, Max(blanks), LineEnd(s, Max(blanks)) - 1)>>
             ELSE <<>>

\* re.search(r'(?m)^\s*key\s*(.+)', s) from position i on: the group, or <<>>
LineField(s, key, ci, lazy, i) ==
    LET hits == {h \in i..Len(s) : HeadAt(s, h, key, ci)
                                   /\ LineGroup(s, h + Len(key), lazy) # <<>>}
    IN  IF hits = {} THEN <<>> ELSE LineGroup(s, Min(hits) + Len(key), lazy)

\* mn = re.search(r'(?mi)^\s*Name:\s*(.+?)\s*$', main_info_text)
MatchName(s) == LineField(s, "Name:", TRUE, TRUE, 1)

DigitRunEnd(s, i) == RunEnd(s, i, DigitSet)

\* mi = re.search(r'(?mi)^\s*(?:...)?Index:\s*(\d+)\s*$', main_info_text); the
\* optional non-ASCII prefix of the pattern is outside the modelled alphabet
IndexGroup(s, a) ==
    LET j == SkipSpaces(s, a)
        d == DigitRunEnd(s, j)
    IN  IF d > j /\ BlankToLineEnd(s, d) THEN <<SubSeq(s, j, d - 1)>> ELSE <<>>

MatchIndex(s) ==
    LET hits == {h \in 1..Len(s) : HeadAt(s, h, "Index:", TRUE)
                                   /\ IndexGroup(s, h + Len("Index:")) # <<>>}
    IN  IF hits = {} THEN <<>> ELSE IndexGroup(s, Min(hits) + Len("Index:"))

\* me = re.search(r'(?mi)^\s*Enabled:\s*(true|false)\s*$', main_info_text)
EnabledGroup(s, a) ==
    LET j == SkipSpaces(s, a)
    IN  IF StartsWithAt(s, j, "true", TRUE) /\ BlankToLineEnd(s, j + Len("true"))
        THEN <<SubSeq(s, j, j + Len("true") - 1)>>
        ELSE IF StartsWithAt(s, j, "false", TRUE) /\ BlankToLineEnd(s, j + Len("false"))
             THEN <<SubSeq(s, j, j + Len("false") - 1)>>
             ELSE <<>>

MatchEnabled(s) ==
    LET hits == {h \in 1..Len(s) : HeadAt(s, h, "Enabled:", TRUE)
                                   /\ EnabledGroup(s, h + Len("Enabled:")) # <<>>}
    IN  IF hits = {} THEN <<>> ELSE EnabledGroup(s, Min(hits) + Len("Enabled:"))

\* regex [A-Z][a-z]+: at position q
LowerRunEnd(s, i) == RunEnd(s, i, LowerSet)

CapHeader(s, q) ==
    /\ q <= Len(s)
    /\ Ch(s, q) \in UpperSet
    /\ LowerRunEnd(s, q + 1) > q + 1
    /\ Ch(s, LowerRunEnd(s, q + 1)) = ":"

\* the lookahead (?=\n\s*(?:[A-Z][a-z]+:|\Z)) at position n
LookAt(s, n) ==
    /\ n <= Len(s)
    /\ Ch(s, n) = "\n"
    /\ (SkipSpaces(s, n + 1) > Len(s) \/ CapHeader(s, SkipSpaces(s, n + 1)))

\* the group of  \s*(.+?)(?=lookahead)  with (?s), the blanks starting at a:
\* the group starts at the last position the greedy \s* can leave it from
\* which a lookahead position follows, and ends before the first of them
LazyToLook(s, a) ==
    LET j == SkipSpaces(s, a)
        top == IF j <= Len(s) THEN j ELSE Len(s)
        gs == {g \in a..top : \E n \in (g + 1)..Len(s) : LookAt(s, n)}
    IN  IF gs = {} THEN <<>>
        ELSE <<SubSeq(s, Max(gs),
                      Min({n \in (Max(gs) + 1)..Len(s) : LookAt(s, n)}) - 1)>>

\* md = re.search(r'(?ms)^\s*Description:\s*(.+?)(?=\n\s*(?:[A-Z][a-z]+:|\Z))', s)
MatchDescription(s) ==
    LET hits == {h \in 1..Len(s) : HeadAt(s, h, "Description:", FALSE)
                                   /\ LazyToLook(s, h + Len("Description:")) # <<>>}
    IN  IF hits = {} THEN <<>> ELSE LazyToLook(s, Min(hits) + Len("Description:"))

\* the keys of  ^(?:Packages?|Compatible packages?):  (case-sensitive, at the
\* very start of a line)
PkgKeys == <<"Packages:", "Package:", "Compatible packages:", "Compatible package:">>

PkgKeyAt(s, i) ==
    IF IsLineStart(s, i) /\ \E n \in 1..Len(PkgKeys) : StartsWithAt(s, i, PkgKeys[n], FALSE)
    THEN <<Len(PkgKeys[CHOOSE n \in 1..Len(PkgKeys) : StartsWithAt(s, i, PkgKeys[n], FALSE)])>>
    ELSE <<>>

\* the stop  \n[A-Z][A-Za-z ]+?:  at position n
HeaderRunEnd(s, i) == RunEnd(s, i, UpperSet \cup LowerSet \cup {" "})

PkgStop(s, n) ==
    /\ n + 1 <= Len(s)
    /\ Ch(s, n) = "\n"
    /\ Ch(s, n + 1) \in UpperSet
    /\ \E m \in (n + 3)..HeaderRunEnd(s, n + 2) : m <= Len(s) /\ Ch(s, m) = ":"

\* the group of  key:\s*(.+?)(?:\n[A-Z][A-Za-z ]+?:|\Z)  with (?s), a the end of
\* the key: from the first non-blank (or, when only blanks follow, the last
\* character) to the first stop, or to the end of the text
PkgGroup(s, a) ==
    LET j == SkipSpaces(s, a)
        g == IF j <= Len(s) THEN j ELSE Len(s)
        stops == {n \in (g + 1)..Len(s) : PkgStop(s, n)}
    IN  IF a > Len(s) THEN <<>>
        ELSE <<SubSeq(s, g, IF stops = {} THEN Len(s) ELSE Min(stops) - 1)>>

MatchPackagesFrom(s, i) ==
    LET hits == {h \in i..Len(s) : PkgKeyAt(s, h) # <<>>
                                   /\ PkgGroup(s, h + PkgKeyAt(s, h)[1]) # <<>>}
    IN  IF hits = {} THEN <<>> ELSE PkgGroup(s, Min(hits) + PkgKeyAt(s, Min(hits))[1])

\* mp = re.search(pattern, main_info_text) or re.search(pattern, blk)
MatchPackages(main, blk) ==
    IF MatchPackagesFrom(main, 1) # <<>> THEN MatchPackagesFrom(main, 1)
    ELSE MatchPackagesFrom(blk, 1)

WordRunEnd(s, i) == RunEnd(s, i, WordSet)

\* end of the greedy  (?:\.[a-zA-Z0-9_]+)+  that starts at position i, or i
RECURSIVE DottedEnd(_, _)
DottedEnd(s, i) ==
    IF i + 1 <= Len(s) /\ Ch(s, i) = "." /\ IsWordChar(Ch(s, i + 1))
    THEN DottedEnd(s, WordRunEnd(s, i + 1))
    ELSE i

\* re.findall(r'\b[a-zA-Z0-9_]+(?:\.[a-zA-Z0-9_]+)+\b', body) from position i
RECURSIVE FindAllPkgs(_, _)
FindAllPkgs(body, i) ==
    LET words == {k \in i..Len(body) : IsWordChar(Ch(body, k))}
        b == Min(words)
        w == WordRunEnd(body, b)
        d == DottedEnd(body, w)
    IN  IF words = {} THEN <<>>
        ELSE IF d > w THEN <<SubSeq(body, b, d - 1)>> \o FindAllPkgs(body, d)
             ELSE FindAllPkgs(body, w)

\* options_match = re.search(r'(?m)^\s*Options:\s*$', blk): position of the key
OptionsAt(s) ==
    LET hits == {h \in 1..Len(s) : HeadAt(s, h, "Options:", FALSE)
                                   /\ BlankToLineEnd(s, h + Len("Options:"))}
    IN  IF hits = {} THEN 0 ELSE Min(hits)

\* main_info_text and options_text of a block
MainInfoText(blk) ==
    IF OptionsAt(blk) = 0 THEN blk ELSE Strip(SubSeq(blk, 1, OptionsAt(blk) - 1))

OptionsText(blk) ==
    IF OptionsAt(blk) = 0 THEN ""
    ELSE Strip(SubSeq(blk, OptionsAt(blk) + Len("Options:"), Len(blk)))

\* re.split(r'(?m)(?=\n\s*Title:)', options_text): a chunk starts at position 1
\* and at each "\n" the lookahead holds at
TitleAhead(s, n) ==
    /\ n <= Len(s)
    /\ Ch(s, n) = "\n"
    /\ StartsWithAt(s, SkipSpaces(s, n + 1), "Title:", FALSE)

SplitOptions(s) ==
    LET cuts == {i \in 2..Len(s) : TitleAhead(s, i)}
        order == Ascending({1} \cup cuts)
    IN  [n \in 1..Len(order) |->
            SubSeq(s, order[n], Min({c \in cuts \cup {Len(s) + 1} : c > order[n]}) - 1)]

\* m_pv: the group of  ^\s*Possible values:\s*\n(.+?)(?=lookahead)  for the key
\* ending at a: \s* leaves the last "\n" of the blanks after which a lookahead
\* position follows
PossibleGroup(s, a) ==
    LET j == SkipSpaces(s, a)
        ts == {t \in a..(j - 1) : Ch(s, t) = "\n" /\ t + 1 <= Len(s)
                                  /\ \E n \in (t + 2)..Len(s) : LookAt(s, n)}
    IN  IF ts = {} THEN <<>>
        ELSE <<SubSeq(s, Max(ts) + 1,
                      Min({n \in (Max(ts) + 2)..Len(s) : LookAt(s, n)}) - 1)>>

MatchPossibleFrom(s, i) ==
    LET hits == {h \in i..Len(s) : HeadAt(s, h, "Possible values:", FALSE)
                                   /\ PossibleGroup(s, h + Len("Possible values:")) # <<>>}
    IN  IF hits = {} THEN <<>>
        ELSE PossibleGroup(s, Min(hits) + Len("Possible values:"))

\* [line.strip() for line in pv_text.splitlines() if line.strip()]
RECURSIVE StrippedLines(_, _)
StrippedLines(s, i) ==
    IF i > Len(s) THEN <<>>
    ELSE LET e == LineEnd(s, i)
             ln == Strip(SubSeq(s, i, e - 1))
         IN  (IF ln = "" THEN <<>> ELSE <<ln>>) \o StrippedLines(s, e + 1)

StripOpt(m) == IF m = <<>> THEN <<>> ELSE <<Strip(m[1])>>

\* opt_dict of one stripped option chunk; an absent key is <<>>
ParseOption(blk) ==
    [title |-> StripOpt(LineField(blk, "Title:", FALSE, FALSE, 1)),
     description |-> StripOpt(MatchDescription(blk)),
     required |-> LET m == LineField(blk, "Required:", FALSE, FALSE, 1)
                  IN  IF m = <<>> THEN <<>> ELSE <<LowerStr(Strip(m[1])) = "true">>,
     key |-> StripOpt(LineField(blk, "Key:", FALSE, FALSE, 1)),
     type |-> StripOpt(LineField(blk, "Type:", FALSE, FALSE, 1)),
     default |-> StripOpt(LineField(blk, "Default:", FALSE, FALSE, 1)),
     possible_values |-> LET m == MatchPossibleFrom(blk, 1)
                         IN  IF m = <<>> THEN <<>> ELSE <<StrippedLines(m[1], 1)>>]

\* "if opt_dict:" is false for a chunk none of whose fields matched
OptIsEmpty(o) == \A f \in DOMAIN o : o[f] = <<>>

RECURSIVE ParseOptionChunks(_, _)
ParseOptionChunks(chunks, i) ==
    IF i > Len(chunks) THEN <<>>
    ELSE LET c == Strip(chunks[i])
         IN  (IF c = "" \/ OptIsEmpty(ParseOption(c)) THEN <<>> ELSE <<ParseOption(c)>>)
             \o ParseOptionChunks(chunks, i + 1)

\* patch_dict["options"]; a record without the "options" key has options = <<>>
\* (every reader of the key treats the two alike)
ParseOptions(options_text) ==
    IF options_text = "" THEN <<>>
    ELSE ParseOptionChunks(SplitOptions(options_text), 1)

\* patch_dict of a block whose Name: matched with group mn
PatchDict(blk, mn) ==
    LET main == MainInfoText(blk)
        mi == MatchIndex(main)
        md == MatchDescription(main)
        me == MatchEnabled(main)
        mp == MatchPackages(main, blk)
    IN  [index |-> IF mi = <<>> THEN <<>> ELSE <<StrToInt(mi[1])>>,
         name |-> Strip(mn),
         description |-> StripOpt(md),
         enabled |-> IF me = <<>> THEN <<>> ELSE <<LowerStr(me[1]) = "true">>,
         packages |-> IF mp = <<>> THEN <<>> ELSE FindAllPkgs(mp[1], 1),
         options |-> ParseOptions(OptionsText(blk))]

\* mutant: the "if not mn: continue" is missing, a block without a name yields
\* a record with an empty name
ParseBlock_KeepNameless(blk) ==
    LET mn == MatchName(MainInfoText(blk))
    IN  <<PatchDict(blk, IF mn = <<>> THEN "" ELSE mn[1])>>

\* the entries one block adds: its patch_dict, or nothing when Name: is missing
ParseBlock(blk) ==
    LET mn == MatchName(MainInfoText(blk))
    IN  IF mn = <<>> THEN <<>> ELSE <<PatchDict(blk, mn[1])>>

RECURSIVE ParseBlocks(_, _)
ParseBlocks(blks, i) ==
    IF i > Len(blks) THEN <<>>
    ELSE (IF Strip(blks[i]) = "" THEN <<>> ELSE ParseBlock(blks[i]))
         \o ParseBlocks(blks, i + 1)

\* _parse_patches(text)
ParsePatches(text) == ParseBlocks(SplitBlocks(Strip(text)), 1)

(***************************************************************************)
(* worker_handlers.py: handle_list_patches                                 *)
(***************************************************************************)
\* "if not e.get("index", None): continue": None and 0 are both falsy
IndexFalsy(e) == e.index = <<>> \/ e.index[1] = 0

LowerAll(pkgs) == [i \in 1..Len(pkgs) |-> LowerStr(pkgs[i])]

InSeq(x, q) == \E i \in 1..Len(q) : q[i] = x

\* the body of the loop of filter_rows: is e appended to rows
KeepRow(e, pkg, allow_universal) ==
    LET pkgs == LowerAll(e.packages)
        is_univ == Len(pkgs) = 0
    IN  /\ ~IndexFalsy(e)
        /\ IF pkg = ""
           THEN (~is_univ) \/ (is_univ /\ allow_universal)
           ELSE InSeq(pkg, pkgs) \/ (is_univ /\ allow_universal)

\* mutant: the loop starts at the second entry
FilterRows_SkipFirst(entries, pkg, allow_universal) ==
    IF entries = <<>> THEN <<>>
    ELSE SelectSeq(Tail(entries), LAMBDA e : KeepRow(e, pkg, allow_universal))

\* filter_rows(allow_universal) over entries, pkg the normalised target
FilterRows(entries, pkg, allow_universal) ==
    SelectSeq(entries, LAMBDA e : KeepRow(e, pkg, allow_universal))

\* pkg = (msg.get("pkg") or "").strip().lower()
NormPkg(msg_pkg) == LowerStr(Strip(msg_pkg))

\* mutant: no second pass when the first one is empty
FilterEntries_NoFallback(entries, msg_pkg, inc_univ) ==
    SelectSeq(entries, LAMBDA e : KeepRow(e, NormPkg(msg_pkg), inc_univ))

\* handle_list_patches from the parsed entries on: the rows of the patches message
FilterEntries(entries, msg_pkg, inc_univ) ==
    LET pkg == NormPkg(msg_pkg)
        has_pkg_info == \E i \in 1..Len(entries) : entries[i].packages # <<>>
    IN  IF pkg # "" /\ has_pkg_info
        THEN IF FilterRows(entries, pkg, inc_univ) = <<>>
             THEN FilterRows(entries, pkg, TRUE)
             ELSE FilterRows(entries, pkg, inc_univ)
        ELSE FilterRows(entries, pkg, inc_univ)

(***************************************************************************)
(* The text _run_cli_list_patches returns: the output of the external tool *)
(* for a bundle, written from a description of its blocks.  A field a      *)
(* block lacks is <<>>.                                                    *)
(***************************************************************************)
RECURSIVE JoinWith(_, _)
JoinWith(parts, sep) ==
    IF parts = <<>> THEN ""
    ELSE IF Len(parts) = 1 THEN parts[1]
         ELSE parts[1] \o sep \o JoinWith(Tail(parts), sep)

RenderOption(o) ==
    JoinWith(<<"Title: " \o o.title, "Key: " \o o.key>>
             \o (IF o.default = <<>> THEN <<>> ELSE <<"Default: " \o o.default[1]>>),
             "\n")

RenderOptions(opts) ==
    IF opts = <<>> THEN <<>>
    ELSE <<"Options:", JoinWith([i \in 1..Len(opts) |-> RenderOption(opts[i])], "\n")>>

RenderBlock(d) ==
    JoinWith(
        (IF d.noise = <<>> THEN <<>> ELSE <<d.noise[1]>>)
        \o (IF d.idx = <<>> THEN <<>> ELSE <<"Index: " \o IntToStr(d.idx[1])>>)
        \o (IF d.name = <<>> THEN <<>> ELSE <<"Name: " \o d.name[1]>>)
        \o (IF d.desc = <<>> THEN <<>> ELSE <<"Description: " \o d.desc[1]>>)
        \o (IF d.en = <<>> THEN <<>> ELSE <<"Enabled: " \o (IF d.en[1] THEN "true" ELSE "false")>>)
        \o (IF d.pkgs = <<>> \/ d.late_pkgs THEN <<>> ELSE <<"Compatible packages: " \o d.pkgs[1]>>)
        \o RenderOptions(d.opts)
        \o (IF d.pkgs = <<>> \/ ~d.late_pkgs THEN <<>> ELSE <<"Compatible packages: " \o d.pkgs[1]>>),
        "\n")

RenderText(blocks) ==
    IF blocks = <<>> THEN ""
    ELSE JoinWith([i \in 1..Len(blocks) |-> RenderBlock(blocks[i])], "\n\n") \o "\n"

Block(noise, idx, name, desc, en, pkgs, late_pkgs, opts) ==
    [noise |-> noise, idx |-> idx, name |-> name, desc |-> desc, en |-> en,
     pkgs |-> pkgs, late_pkgs |-> late_pkgs, opts |-> opts]

Opt(title, key, default) == [title |-> title, key |-> key, default |-> default]

\* the two blocks of the parsing scenario
BlkRemoveAds ==
    Block(<<>>, <<3>>, <<"Remove ads">>, <<>>, <<FALSE>>, <<"com.foo.bar (1.0.0)">>, FALSE, <<>>)
BlkBranding ==
    Block(<<>>, <<7>>, <<"Custom branding">>, <<>>, <<TRUE>>, <<>>, FALSE, <<>>)
\* the first patch of a bundle: the tool numbers patches from 0
BlkZero ==
    Block(<<>>, <<0>>, <<"Hide ads">>, <<"Hides\nall ads.">>, <<TRUE>>, <<"com.foo.bar">>, FALSE, <<>>)
\* a block without an index that shares its name with another patch
BlkNoIndex ==
    Block(<<>>, <<>>, <<"Remove ads">>, <<>>, <<>>, <<"com.foo.bar">>, FALSE, <<>>)
\* a block without a name, and a banner line
BlkNoName ==
    Block(<<>>, <<5>>, <<>>, <<>>, <<TRUE>>, <<"com.foo.bar">>, FALSE, <<>>)
BlkBanner ==
    Block(<<"INFO: Loading patches">>, <<>>, <<>>, <<>>, <<>>, <<>>, FALSE, <<>>)
\* a name with a parenthesised suffix, a package in mixed case, one option, the
\* packages listed after the options as the tool does
BlkLegacy ==
    Block(<<>>, <<9>>, <<"Remove ads (legacy)">>, <<"Old.">>, <<FALSE>>, <<"com.Foo.Bar">>, TRUE,
          <<Opt("Strength", "strength", <<"5">>)>>)
\* a universal patch with a list-typed option, its name shared with patch 7
BlkBranding2 ==
    Block(<<>>, <<4>>, <<"Custom branding">>, <<>>, <<>>, <<>>, FALSE,
          <<Opt("Names", "names", <<"[a, b]">>)>>)

BlockPool ==
    {BlkRemoveAds, BlkBranding, BlkZero, BlkNoIndex, BlkNoName, BlkBanner, BlkLegacy,
     BlkBranding2}

\* the input of spec scenario 6, as the spec gives it
Scenario6Text ==
    "Index: 3\nName: Remove ads\nEnabled: false\nCompatible packages: com.foo.bar (1.0.0)\n\nIndex: 7\nName: Custom branding\nEnabled: true\n"

\* bounds of the list-patches pipeline
MaxBlocks == 2

BlockSeqs == UNION {[1..n -> BlockPool] : n \in 0..MaxBlocks}

\* the target packages a list_patches message carries (the package field of
\* the GUI, as typed or as detected from the APK)
PkgInputs == {"", "com.other", " COM.Foo.Bar "}

(***************************************************************************)
(* gui.py: the items of the patch list and the selection kept over reloads *)
(***************************************************************************)
\* bool(e.get("enabled"))
EnabledByDefault(e) == e.enabled = <<TRUE>>

\* mutant: the label is the name alone
ItemLabel_NameOnly(e) == e.name

\* label of the list item of entry e (an entry that has an index)
ItemLabel(e) ==
    "[" \o IntToStr(e.index[1]) \o "] " \o e.name
    \o (IF e.packages # <<>> THEN "  (" \o JoinWith(e.packages, ", ") \o ")" ELSE "")

\* keep of the patches branch: the check state of the item of entry e
KeepItem(e, reset_sel, kidx, kname) ==
    IF reset_sel THEN EnabledByDefault(e)
    ELSE (e.index[1] \in kidx) \/ (e.name \in kname)

\* mutant: the saved selection is never consulted
ItemsOf_AlwaysEnabled(rows, reset_sel, kidx, kname) ==
    LET shown == SelectSeq(rows, LAMBDA e : e.index # <<>>)
    IN  [i \in 1..Len(shown) |->
            [text |-> ItemLabel(shown[i]), checked |-> EnabledByDefault(shown[i])]]

\* the items the patches branch adds to list_widget for the entries received
ItemsOf(rows, reset_sel, kidx, kname) ==
    LET shown == SelectSeq(rows, LAMBDA e : e.index # <<>>)
    IN  [i \in 1..Len(shown) |->
            [text |-> ItemLabel(shown[i]),
             checked |-> KeepItem(shown[i], reset_sel, kidx, kname)]]

NoNewline(s, a, b) == \A k \in a..b : Ch(s, k) # "\n"

\* regex ^\[(\d+)\] on an item text: the position after "]", 0 for no match
BracketEnd(text) ==
    IF Len(text) >= 3 /\ Ch(text, 1) = "["
    THEN LET d == RunEnd(text, 2, DigitSet)
         IN  IF d > 2 /\ d <= Len(text) /\ Ch(text, d) = "]" THEN d + 1 ELSE 0
    ELSE 0

\* re.match(r'^\[(\d+)\]', text): int(group(1)), or None
HeadIndex(text) ==
    IF BracketEnd(text) = 0 THEN <<>>
    ELSE <<StrToInt(SubSeq(text, 2, BracketEnd(text) - 2))>>

\* re.match(r'^\[(\d+)\]\s+(.*)$', text): int(group(1)), or None; after the
\* blanks the rest of the text has to be one line
LabelIndex(text) ==
    LET b == BracketEnd(text)
        j == SkipSpaces(text, b)
    IN  IF b # 0 /\ j > b /\ NoNewline(text, j, Len(text) - 1)
        THEN <<StrToInt(SubSeq(text, 2, b - 2))>>
        ELSE <<>>

\* re.sub(r'^\s*\[\d+\]\s*', '', text)
DropIndexPrefix(text) ==
    LET rest == SubSeq(text, SkipSpaces(text, 1), Len(text))
        b == BracketEnd(rest)
    IN  IF b = 0 THEN text ELSE SubSeq(rest, SkipSpaces(rest, b), Len(rest))

\* (\s*\(.*\))?$ matching the group from position k+1 of txt to its end
ParenTail(txt, k) ==
    LET j == SkipSpaces(txt, k + 1)
        n == Len(txt)
    IN  /\ j < n
        /\ Ch(txt, j) = "("
        /\ \E c \in (j + 1)..n :
              /\ Ch(txt, c) = ")"
              /\ NoNewline(txt, j + 1, c - 1)
              /\ c = n \/ (c = n - 1 /\ Ch(txt, n) = "\n")

\* re.match(r'(.+?)(\s*\(.*\))?$', txt): the end of group 1, 0 for no match
NameEnd(txt) ==
    LET n == Len(txt)
        ends == {k \in 1..n :
                    /\ NoNewline(txt, 1, k)
                    /\ \/ ParenTail(txt, k)
                       \/ k = n
                       \/ (k = n - 1 /\ Ch(txt, n) = "\n")}
    IN  IF ends = {} THEN 0 ELSE Min(ends)

\* App._extract_item_name(item_text)
ExtractItemName(item_text) ==
    LET txt == Strip(DropIndexPrefix(item_text))
        e == NameEnd(txt)
    IN  IF e = 0 THEN txt ELSE Strip(SubSeq(txt, 1, e))

CheckedItems(items) == {k \in 1..Len(items) : items[k].checked}

\* mutant: the unchecked items are remembered
RememberSelection_Unchecked(items) ==
    LET off == (1..Len(items)) \ CheckedItems(items)
    IN  [idx |-> {LabelIndex(items[k].text)[1] :
                    k \in {c \in off : LabelIndex(items[c].text) # <<>>}},
         name |-> {ExtractItemName(items[k].text) : k \in off}]

\* _remember_selection: the new _keep_idx and _keep_name
RememberSelection(items) ==
    [idx |-> {LabelIndex(items[k].text)[1] :
                k \in {c \in CheckedItems(items) : LabelIndex(items[c].text) # <<>>}},
     name |-> {ExtractItemName(items[k].text) : k \in CheckedItems(items)}]

(***************************************************************************)
(* gui.py: the option widgets of the checked patches                       *)
(***************************************************************************)
\* the entry of the combo box that opens the free-text field (the source holds
\* a Korean literal that no tool output equals)
CustomOptionText == "<custom>"

\* mutant: the update keys are not excluded
ReservedKeys_PackageOnly == {"packageName"}

\* the keys of the dedicated controls
ReservedKeys == {"packageName", "updatePermissions", "updateProviders"}

StartsWith(s, prefix) == Len(prefix) <= Len(s) /\ SubSeq(s, 1, Len(prefix)) = prefix

\* s.strip().startswith('[') and s.strip().endswith(']')
IsListLiteral(s) ==
    LET t == Strip(s)
    IN  Len(t) >= 1 /\ Ch(t, 1) = "[" /\ Ch(t, Len(t)) = "]"

\* an ordered dict as a sequence of <<key, value>>: d[k] = v keeps the place of
\* a key that is already there
DictHas(d, k) == \E i \in 1..Len(d) : d[i][1] = k
DictGet(d, k) == d[CHOOSE i \in 1..Len(d) : d[i][1] = k][2]
DictPut(d, k, v) ==
    IF DictHas(d, k)
    THEN [i \in 1..Len(d) |-> IF d[i][1] = k THEN <<k, v>> ELSE d[i]]
    ELSE Append(d, <<k, v>>)

RECURSIVE DictPutAll(_, _)
DictPutAll(d, kvs) ==
    IF kvs = <<>> THEN d ELSE DictPutAll(DictPut(d, kvs[1][1], kvs[1][2]), Tail(kvs))

RECURSIVE Concat(_)
Concat(seqs) == IF seqs = <<>> THEN <<>> ELSE seqs[1] \o Concat(Tail(seqs))

\* the widget built for one option: a combo box with a free-text field when
\* the option lists possible values, a text field otherwise
OptionWidget(option) ==
    IF option.possible_values # <<>>
    THEN LET items == option.possible_values[1]
             hits == IF option.default = <<>> THEN {}
                     ELSE {i \in 1..Len(items) : StartsWith(Strip(items[i]), option.default[1])}
         IN  [is_composite |-> TRUE,
              is_list_type |-> option.default # <<>> /\ IsListLiteral(option.default[1]),
              combo |-> IF hits # {} THEN items[Min(hits)]
                        ELSE IF option.default # <<>> \/ items = <<>> THEN CustomOptionText
                        ELSE items[1],
              text |-> IF option.default # <<>> /\ hits = {} THEN option.default[1] ELSE ""]
    ELSE [is_composite |-> FALSE,
          is_list_type |-> option.default # <<>> /\ IsListLiteral(option.default[1]),
          combo |-> "",
          text |-> IF option.default = <<>> THEN "" ELSE option.default[1]]

\* the widgets one entry contributes, keyed "<index>_<key>"
WidgetsOfEntry(patch) ==
    LET opts == SelectSeq(patch.options,
                          LAMBDA o : o.key # <<>> /\ o.key[1] # "" /\ o.key[1] \notin ReservedKeys)
    IN  [i \in 1..Len(opts) |->
            <<IntToStr(patch.index[1]) \o "_" \o opts[i].key[1], OptionWidget(opts[i])>>]

\* _update_dynamic_options: the new dynamic_option_widgets
UpdateDynamicOptions(ents, items) ==
    LET selected == {HeadIndex(items[k].text)[1] :
                        k \in {c \in CheckedItems(items) : HeadIndex(items[c].text) # <<>>}}
        owners == SelectSeq(ents, LAMBDA p : p.index # <<>> /\ p.index[1] \in selected)
    IN  DictPutAll(<<>>, Concat([i \in 1..Len(owners) |-> WidgetsOfEntry(owners[i])]))

(***************************************************************************)
(* gui.py: on_build, the argument vector of the patch tool                 *)
(***************************************************************************)
\* the folder of the application and its output folder
Cwd == "/app"
OutDir == Cwd \o "/output"

\* Path(p).resolve() on the paths of the model: a relative path is taken from
\* the working directory
Resolve(p) == IF StartsWith(p, "/") THEN p ELSE Cwd \o "/" \o p

\* Path(p).stem: the last component without its last suffix
PathStem(p) ==
    LET slashes == {k \in 1..Len(p) : Ch(p, k) = "/"}
        base == SubSeq(p, (IF slashes = {} THEN 0 ELSE Max(slashes)) + 1, Len(p))
        dots == {k \in 2..Len(base) : Ch(base, k) = "."}
    IN  IF dots = {} THEN base ELSE SubSeq(base, 1, Max(dots) - 1)

\* s.strip('[]')
StripBrackets(s) ==
    LET keep == {k \in 1..Len(s) : Ch(s, k) \notin {"[", "]"}}
    IN  IF keep = {} THEN "" ELSE SubSeq(s, Min(keep), Max(keep))

\* f"[{value.strip().strip('[]').strip()}]"
WrapList(value) == "[" \o Strip(StripBrackets(Strip(value))) \o "]"

\* s.split(' ')[0]
FirstToken(s) ==
    LET sp == {k \in 1..Len(s) : Ch(s, k) = " "}
    IN  IF sp = {} THEN s ELSE SubSeq(s, 1, Min(sp) - 1)

\* widget_key.split('_', 1)[1]
OriginalKey(widget_key) ==
    SubSeq(widget_key, Min({k \in 1..Len(widget_key) : Ch(widget_key, k) = "_"}) + 1,
           Len(widget_key))

\* the value on_build reads from one option widget
WidgetValue(w) ==
    IF w.is_composite
    THEN IF w.combo = CustomOptionText
         THEN IF w.is_list_type THEN WrapList(Strip(w.text)) ELSE Strip(w.text)
         ELSE FirstToken(w.combo)
    ELSE IF w.is_list_type THEN WrapList(Strip(w.text)) ELSE Strip(w.text)

\* all_options_values: the dedicated controls first, then the option widgets
AllOptionsValues(f, widgets) ==
    LET fixed == (IF Strip(f.change_pkg_input) # ""
                  THEN <<<<"packageName", Strip(f.change_pkg_input)>>>> ELSE <<>>)
                 \o (IF f.update_perms THEN <<<<"updatePermissions", "true">>>> ELSE <<>>)
                 \o (IF f.update_providers THEN <<<<"updateProviders", "true">>>> ELSE <<>>)
        valued == SelectSeq(widgets, LAMBDA kw : WidgetValue(kw[2]) # "")
    IN  DictPutAll(fixed, [i \in 1..Len(valued) |->
                              <<OriginalKey(valued[i][1]), WidgetValue(valued[i][2])>>])

\* option_keys of an entry
OptionKeys(e) ==
    LET opts == SelectSeq(e.options, LAMBDA o : o.key # <<>> /\ o.key[1] # "")
    IN  [i \in 1..Len(opts) |-> opts[i].key[1]]

\* index_to_option_keys.get(idx, []): the keys of the last entry with that index
\* that has option keys
IndexOptionKeys(ents, idx) ==
    LET S == {i \in 1..Len(ents) : ents[i].index = <<idx>> /\ OptionKeys(ents[i]) # <<>>}
    IN  IF S = {} THEN <<>> ELSE OptionKeys(ents[Max(S)])

\* pkgs_map.get(identifier, []), the identifier an index, or else a name
PkgsOfItem(ents, idx, nm) ==
    LET S == IF idx # <<>>
             THEN {i \in 1..Len(ents) : ents[i].index = idx}
             ELSE {i \in 1..Len(ents) : ents[i].name = nm /\ nm # ""}
    IN  IF S = {} THEN <<>> ELSE ents[Max(S)].packages

\* the test of line 870 for one checked item: does it go into the includes
ItemIncluded(ents, text, pkg_text, inc_univ) ==
    LET current_pkg == LowerStr(Strip(pkg_text))
        pkgs == PkgsOfItem(ents, LabelIndex(text), ExtractItemName(text))
        is_universal == Len(pkgs) = 0
        is_for_this_pkg == current_pkg # "" /\ InSeq(current_pkg, LowerAll(pkgs))
    IN  (inc_univ /\ is_universal) \/ is_for_this_pkg \/ current_pkg = ""

\* the checked items that pass the test, in list order
IncludedItems(ents, items, pkg_text, inc_univ) ==
    SelectSeq(items, LAMBDA it : it.checked /\ ItemIncluded(ents, it.text, pkg_text, inc_univ))

IncludesByIdx(ents, items, pkg_text, inc_univ) ==
    LET inc == SelectSeq(IncludedItems(ents, items, pkg_text, inc_univ),
                         LAMBDA it : LabelIndex(it.text) # <<>>)
    IN  [i \in 1..Len(inc) |-> LabelIndex(inc[i].text)[1]]

IncludesByName(ents, items, pkg_text, inc_univ) ==
    LET inc == SelectSeq(IncludedItems(ents, items, pkg_text, inc_univ),
                         LAMBDA it : LabelIndex(it.text) = <<>> /\ ExtractItemName(it.text) # "")
    IN  [i \in 1..Len(inc) |-> ExtractItemName(inc[i].text)]

\* mutant: the value is left out
OptionArg_NoValue(key, value) == "-O" \o key

\* f"-O{key}" or f"-O{key}={value}"
OptionArg(key, value) == IF value = "" THEN "-O" \o key ELSE "-O" \o key \o "=" \o value

\* the arguments of one included index: --ei idx and its options that have a value
IndexArgs(ents, idx, values) ==
    LET keys == SelectSeq(IndexOptionKeys(ents, idx), LAMBDA k : DictHas(values, k))
    IN  <<"--ei", IntToStr(idx)>>
        \o [i \in 1..Len(keys) |-> OptionArg(keys[i], DictGet(values, keys[i]))]

\* mutant: no key is marked as consumed
UsedOptionKeys_None(ents, by_idx, values) == {}

\* used_option_keys after the loop over includes_by_idx
UsedOptionKeys(ents, by_idx, values) ==
    UNION {{k \in {IndexOptionKeys(ents, by_idx[i])[n] :
                     n \in 1..Len(IndexOptionKeys(ents, by_idx[i]))} : DictHas(values, k)} :
           i \in 1..Len(by_idx)}

\* mutant: --exclusive is put before the bundle
BaseArgs_ExclusiveFirst(cli, rvp, f) ==
    <<"java", "-jar", cli, "patch">> \o (IF f.exclusive THEN <<"--exclusive">> ELSE <<>>)
    \o <<"-p", rvp, "--purge">>

\* the base invocation and the exclusive flag
BaseArgs(cli, rvp, f) ==
    <<"java", "-jar", cli, "patch", "-p", rvp, "--purge">>
    \o (IF f.exclusive THEN <<"--exclusive">> ELSE <<>>)

\* mutant: the passwords are emitted only along with their keystore or alias
SigningArgs_Nested(f) ==
    (IF Strip(f.keystore_edit) # ""
     THEN <<"--keystore", Strip(f.keystore_edit)>>
          \o (IF Strip(f.ks_pass) # "" THEN <<"--keystore-password", Strip(f.ks_pass)>> ELSE <<>>)
     ELSE <<>>)
    \o (IF Strip(f.alias) # ""
        THEN <<"--keystore-entry-alias", Strip(f.alias)>>
             \o (IF Strip(f.alias_pass) # ""
                 THEN <<"--keystore-entry-password", Strip(f.alias_pass)>> ELSE <<>>)
        ELSE <<>>)

\* the signing flags
SigningArgs(f) ==
    (IF Strip(f.keystore_edit) # "" THEN <<"--keystore", Strip(f.keystore_edit)>> ELSE <<>>)
    \o (IF Strip(f.ks_pass) # "" THEN <<"--keystore-password", Strip(f.ks_pass)>> ELSE <<>>)
    \o (IF Strip(f.alias) # "" THEN <<"--keystore-entry-alias", Strip(f.alias)>> ELSE <<>>)
    \o (IF Strip(f.alias_pass) # ""
        THEN <<"--keystore-entry-password", Strip(f.alias_pass)>> ELSE <<>>)

\* cmdline of on_build, f the form
BuildCmdline(cli, rvp, ents, items, widgets, pkg_text, inc_univ, f) ==
    LET by_idx == IncludesByIdx(ents, items, pkg_text, inc_univ)
        by_name == IncludesByName(ents, items, pkg_text, inc_univ)
        values == AllOptionsValues(f, widgets)
        used == UsedOptionKeys(ents, by_idx, values)
        rest == SelectSeq(values, LAMBDA kv : kv[1] \notin used)
        tmp_base == IF Strip(f.tmp_dir_edit) = "" THEN OutDir \o "/work"
                    ELSE Strip(f.tmp_dir_edit)
    IN  BaseArgs(cli, rvp, f)
        \o Concat([i \in 1..Len(by_idx) |-> IndexArgs(ents, by_idx[i], values)])
        \o Concat([i \in 1..Len(by_name) |-> <<"-e", by_name[i]>>])
        \o [i \in 1..Len(rest) |-> OptionArg(rest[i][1], rest[i][2])]
        \o SigningArgs(f)
        \o <<"--temporary-files-path", Resolve(tmp_base), "-o",
             OutDir \o "/" \o PathStem(Strip(f.apk_edit)) \o "-revanced.apk",
             Strip(f.apk_edit)>>

\* mutant: the warning is never logged
ChangePkgWarning_Never(items, f) == FALSE

\* on_build logs "[WARN] ..." : a package name is given and no checked item is
\* named "change package name" (lower-cased)
ChangePkgWarning(items, f) ==
    /\ Strip(f.change_pkg_input) # ""
    /\ ~\E k \in CheckedItems(items) :
          LowerStr(Strip(ExtractItemName(items[k].text))) = "change package name"

\* the build command on_build puts on the queue; h_in and h_warned are history
\* fields: what on_build read, and whether it logged the warning
BuildMsg(cli, rvp, ents, items, widgets, pkg_text, inc_univ, f) ==
    [cmd |-> "build",
     h_in |-> [ents |-> ents, items |-> items, widgets |-> widgets, pkg_text |-> pkg_text,
               inc_univ |-> inc_univ, f |-> f],
     h_warned |-> ChangePkgWarning(items, f),
     cli |-> cli, rvp |-> rvp, apk |-> Strip(f.apk_edit),
     out_apk |-> OutDir \o "/" \o PathStem(Strip(f.apk_edit)) \o "-revanced.apk",
     exclusive |-> f.exclusive,
     includes_by_idx |-> IncludesByIdx(ents, items, pkg_text, inc_univ),
     includes_by_name |-> IncludesByName(ents, items, pkg_text, inc_univ),
     options |-> AllOptionsValues(f, widgets),
     cmdline |-> BuildCmdline(cli, rvp, ents, items, widgets, pkg_text, inc_univ, f),
     keystore |-> Strip(f.keystore_edit), ks_pass |-> Strip(f.ks_pass),
     alias |-> Strip(f.alias), alias_pass |-> Strip(f.alias_pass),
     tmp_base |-> Resolve(IF Strip(f.tmp_dir_edit) = "" THEN OutDir \o "/work"
                          ELSE Strip(f.tmp_dir_edit)),
     adb_install |-> f.adb_install_check]

\* the [CMD] line handle_build logs: an argument that holds a blank is quoted
QuoteArg(c) == IF \E k \in 1..Len(c) : Ch(c, k) = " " THEN "\"" \o c \o "\"" ELSE c
CmdLogLine(cmdline) == "[CMD] " \o JoinWith([i \in 1..Len(cmdline) |-> QuoteArg(cmdline[i])], " ")

(***************************************************************************)
(* Inputs of the GUI runs                                                  *)
(***************************************************************************)
\* a patch with an option whose index another bundle gives to another patch
BlkSpoof ==
    Block(<<>>, <<9>>, <<"Spoof client">>, <<>>, <<TRUE>>, <<"com.foo.bar">>, TRUE,
          <<Opt("Strength", "strength", <<"5">>)>>)

\* a universal patch whose first option has the key of the option of patch 9,
\* and whose second option has a nested list as its default
BlkTheme ==
    Block(<<>>, <<4>>, <<"Theme">>, <<>>, <<FALSE>>, <<>>, FALSE,
          <<Opt("Strength", "strength", <<"9">>), Opt("Colors", "colors", <<"[[a],[b]]">>)>>)
\* the patch behind the change-package-name field: its options have the keys
\* of the dedicated controls
BlkChangePkg ==
    Block(<<>>, <<5>>, <<"Change package name">>, <<>>, <<FALSE>>, <<>>, FALSE,
          <<Opt("Package name", "packageName", <<"Default">>),
            Opt("Update permissions", "updatePermissions", <<"false">>)>>)

\* the files the user can pick, and what the tool prints for each bundle
CliPath == OutDir \o "/cli.jar"
RvpA == OutDir \o "/a.rvp"
RvpB == OutDir \o "/b.rvp"
RvpC == OutDir \o "/c.rvp"
RvpD == OutDir \o "/d.rvp"
RvpE == OutDir \o "/e.rvp"
RvpInputs == {RvpA, RvpB}

\* bundle a names patch 3 as _remember_selection names patch 9; bundle b gives
\* index 9 to another patch; bundle c holds a universal patch; bundle d holds
\* patches with options; bundle e lists a patch without an index
BundleBlocks(rvp) ==
    IF rvp = RvpA THEN <<BlkLegacy, BlkRemoveAds>>
    ELSE IF rvp = RvpB THEN <<BlkSpoof, BlkRemoveAds>>
    ELSE IF rvp = RvpC THEN <<BlkSpoof, BlkBranding>>
    ELSE IF rvp = RvpE THEN <<BlkSpoof, BlkNoIndex>>
    ELSE <<BlkSpoof, BlkTheme, BlkChangePkg>>

\* entries = _parse_patches(_run_cli_list_patches(cli, rvp)) for each bundle
ToolEntries ==
    [rvp \in RvpInputs \cup {RvpC, RvpD, RvpE} |-> ParsePatches(RenderText(BundleBlocks(rvp)))]

\* what the user types into the package field
PkgEdits == {"", "com.other", "com.foo.bar"}

\* the build form as constructed, and as a user fills it in
FormDefault ==
    [apk_edit |-> "", exclusive |-> TRUE, update_perms |-> FALSE, update_providers |-> FALSE,
     change_pkg_input |-> "", keystore_edit |-> "", ks_pass |-> "", alias |-> "",
     alias_pass |-> "", tmp_dir_edit |-> "", adb_path_edit |-> "", adb_install_check |-> FALSE,
     adb_device_edit |-> ""]
FormFilled ==
    [apk_edit |-> "/in/my app.apk", exclusive |-> FALSE, update_perms |-> TRUE,
     update_providers |-> FALSE, change_pkg_input |-> " com.foo.clone", keystore_edit |-> "/k/my.jks",
     ks_pass |-> "pw", alias |-> "", alias_pass |-> "", tmp_dir_edit |-> "", adb_path_edit |-> "",
     adb_install_check |-> FALSE, adb_device_edit |-> ""]
FormInputs == {FormFilled}

\* how a run of the patch tool ends: <<code>> for an exit code, <<>> when the
\* process cannot be started (Popen raises)
ExitCodes == {0, 1, 2}
BuildOutcomes == {<<c>> : c \in ExitCodes} \cup {<<>>}

\* a line the patch tool prints, and the error text of a failed run (the
\* source puts a Korean phrase before "code=")
ToolLine == "INFO: patching"
FailText(code) == "code=" \o IntToStr(code)

\* bounds of the GUI runs: messages waiting in the two queues when a handler
\* sends a command, pending single-shot timers
MaxQueue == 1
MaxTimers == 1

(***************************************************************************)
(* State                                                                   *)
(***************************************************************************)
VARIABLES
    \* the pipeline of handle_list_patches, run on its own
    lp_src,        \* the blocks the tool printed
    lp_text,       \* text = _run_cli_list_patches(cli, rvp)
    lp_pkg,        \* msg["pkg"]
    lp_inc_univ,   \* msg["inc_univ"]
    lp_entries,    \* entries = _parse_patches(text)
    lp_rows,       \* the rows sent in the patches message
    lp_rows2,      \* the rows of a second pass over lp_rows
    lp_pc,         \* "off", "start", "parsed", "filtered", "refiltered"
    \* App
    cli_jar,                 \* None or the path picked
    rvp_file,                \* None or the path picked
    pkg_edit,                \* text of the package field
    include_universal,       \* the check box
    form,                    \* the fields on_build reads
    entries,                 \* the entries of the last patches message
    list_widget,             \* the items: text and check state
    _keep_idx, _keep_name,   \* the selection saved by _remember_selection
    reset_select,
    dynamic_option_widgets,  \* ordered dict "<index>_<key>" -> widget
    pb_busy,                 \* the progress bar shows "busy"
    timers,                  \* pending QTimer.singleShot(0, on_list_patches)
    drain_m,                 \* inside the loop of _drain_queues: type of the message taken last
    \* the queues and the worker
    qin, qout,
    wk_cmd,                  \* None at in_q.get(), else the command whose "done" is due
    wk_exit,                 \* worker_loop has returned
    \* the patch picker dialog while open_patch_picker is inside dlg.exec(), else
    \* None: the text of its search field, the entries it was given (_all_rows),
    \* and whether self.entries still holds these very records
    picker,
    \* the queues of worker_loop of revanced_gui.py
    lg_qin, lg_qout

lp_vars == <<lp_src, lp_text, lp_pkg, lp_inc_univ, lp_entries, lp_rows, lp_rows2, lp_pc>>

gui_vars ==
    <<cli_jar, rvp_file, pkg_edit, include_universal, form, entries, list_widget, _keep_idx,
      _keep_name, reset_select, dynamic_option_widgets, pb_busy, timers, drain_m, qin, qout,
      wk_cmd>>

ext_vars == <<wk_exit, picker, lg_qin, lg_qout>>

vars == <<lp_vars, gui_vars, ext_vars>>

\* the worker runs, no dialog is open
ExtInit == wk_exit = FALSE /\ picker = <<>> /\ lg_qin = <<>> /\ lg_qout = <<>>

\* App.__init__, once the start-up environment check has been answered
GuiInit ==
    /\ cli_jar = <<>> /\ rvp_file = <<>>
    /\ pkg_edit = "" /\ include_universal = FALSE
    /\ form = FormDefault
    /\ entries = <<>> /\ list_widget = <<>>
    /\ _keep_idx = {} /\ _keep_name = {}
    /\ reset_select = TRUE
    /\ dynamic_option_widgets = <<>>
    /\ pb_busy = FALSE
    /\ timers = 0
    /\ drain_m = <<>>
    /\ qin = <<>> /\ qout = <<>>
    /\ wk_cmd = <<>>
    /\ ExtInit

(***************************************************************************)
(* SpecList: the list-patches pipeline on bounded tool output              *)
(***************************************************************************)
ListInit ==
    /\ lp_src \in BlockSeqs
    /\ lp_text = RenderText(lp_src)
    /\ lp_pkg \in PkgInputs
    /\ lp_inc_univ \in BOOLEAN
    /\ lp_entries = <<>>
    /\ lp_rows = <<>>
    /\ lp_rows2 = <<>>
    /\ lp_pc = "start"
    /\ GuiInit

\* entries = _parse_patches(text)
ListParse ==
    /\ lp_pc = "start"
    /\ lp_entries' = ParsePatches(lp_text)
    /\ lp_pc' = "parsed"
    /\ UNCHANGED <<lp_src, lp_text, lp_pkg, lp_inc_univ, lp_rows, lp_rows2, gui_vars, ext_vars>>

\* the rest of handle_list_patches: the rows put on out_q
ListFilter ==
    /\ lp_pc = "parsed"
    /\ lp_rows' = FilterEntries(lp_entries, lp_pkg, lp_inc_univ)
    /\ lp_pc' = "filtered"
    /\ UNCHANGED <<lp_src, lp_text, lp_pkg, lp_inc_univ, lp_entries, lp_rows2, gui_vars, ext_vars>>

\* the filter applied to its own output, same pkg and inc_univ
ListRefilter ==
    /\ lp_pc = "filtered"
    /\ lp_rows2' = FilterEntries(lp_rows, lp_pkg, lp_inc_univ)
    /\ lp_pc' = "refiltered"
    /\ UNCHANGED <<lp_src, lp_text, lp_pkg, lp_inc_univ, lp_entries, lp_rows, gui_vars, ext_vars>>

ListNext == ListParse \/ ListFilter \/ ListRefilter

SpecList == ListInit /\ [][ListNext]_vars

(***************************************************************************)
(* Spec and SpecBuild: the GUI and the worker, from the file pickers to    *)
(* the build.  The start-up environment check has been answered; the ADB   *)
(* path field stays empty and "install after build" stays off; the files   *)
(* on_build looks for exist.                                               *)
(***************************************************************************)
Init ==
    /\ GuiInit
    /\ lp_src = <<>> /\ lp_text = "" /\ lp_pkg = "" /\ lp_inc_univ = FALSE
    /\ lp_entries = <<>> /\ lp_rows = <<>> /\ lp_rows2 = <<>> /\ lp_pc = "off"

\* the main window takes the user's input: the GUI thread is between two
\* events (not inside _drain_queues) and the modal picker dialog is not open
GuiIdle == drain_m = <<>> /\ picker = <<>>

\* a handler sends a command while fewer than n messages wait in the queues
CanSendWithin(n) == Len(qin) + Len(qout) < n
CanSend == CanSendWithin(MaxQueue)

\* no command is outstanding: the user picks files and edits fields then
Quiet == qin = <<>> /\ qout = <<>> /\ wk_cmd = <<>>

\* the command on_list_patches sends; h_noreset and h_keep are history fields:
\* whether reset_select was false on entry, and the selection saved
ListPatchesMsg(inc) ==
    [cmd |-> "list_patches", cli |-> cli_jar[1], rvp |-> rvp_file[1],
     pkg |-> pkg_edit, inc_univ |-> inc,
     h_noreset |-> ~reset_select, h_keep |-> RememberSelection(list_widget)]

\* mutant: the selection is not captured before the request
OnListPatches_NoCapture(inc) ==
    /\ pb_busy' = TRUE
    /\ UNCHANGED <<_keep_idx, _keep_name>>
    /\ reset_select' = (IF dynamic_option_widgets = <<>> THEN TRUE ELSE reset_select)
    /\ qin' = Append(qin, ListPatchesMsg(inc))

\* on_list_patches past its guard; inc is include_universal.isChecked()
OnListPatches(inc) ==
    /\ pb_busy' = TRUE
    /\ _keep_idx' = RememberSelection(list_widget).idx
    /\ _keep_name' = RememberSelection(list_widget).name
    /\ reset_select' = (IF dynamic_option_widgets = <<>> THEN TRUE ELSE reset_select)
    /\ qin' = Append(qin, ListPatchesMsg(inc))

\* btn_list.clicked -> on_list_patches (without CLI or bundle: a dialog only)
ClickListPatchesWithin(n) ==
    /\ GuiIdle
    /\ cli_jar # <<>> /\ rvp_file # <<>>
    /\ CanSendWithin(n)
    /\ OnListPatches(include_universal)
    /\ UNCHANGED <<cli_jar, rvp_file, pkg_edit, include_universal, form, entries, list_widget,
                   dynamic_option_widgets, timers, drain_m, qout, wk_cmd, lp_vars, ext_vars>>

\* include_universal.checkStateChanged: the user flips the box
ToggleIncludeUniversalWithin(n) ==
    /\ GuiIdle
    /\ include_universal' = ~include_universal
    /\ IF cli_jar # <<>> /\ rvp_file # <<>>
       THEN /\ CanSendWithin(n)
            /\ OnListPatches(~include_universal)
       ELSE UNCHANGED <<pb_busy, _keep_idx, _keep_name, reset_select, qin>>
    /\ UNCHANGED <<cli_jar, rvp_file, pkg_edit, form, entries, list_widget,
                   dynamic_option_widgets, timers, drain_m, qout, wk_cmd, lp_vars, ext_vars>>

\* QTimer.singleShot(0, self.on_list_patches) fires
TimerFireWithin(n) ==
    /\ drain_m = <<>>
    /\ timers > 0
    /\ timers' = timers - 1
    /\ IF cli_jar # <<>> /\ rvp_file # <<>>
       THEN /\ CanSendWithin(n)
            /\ OnListPatches(include_universal)
       ELSE UNCHANGED <<pb_busy, _keep_idx, _keep_name, reset_select, qin>>
    /\ UNCHANGED <<cli_jar, rvp_file, pkg_edit, include_universal, form, entries, list_widget,
                   dynamic_option_widgets, drain_m, qout, wk_cmd, lp_vars, ext_vars>>

ClickListPatches == ClickListPatchesWithin(MaxQueue)
ToggleIncludeUniversal == ToggleIncludeUniversalWithin(MaxQueue)
TimerFire == TimerFireWithin(MaxQueue)

\* the tail of pick_cli_file and pick_rvp_file, cli and rvp the new values
AutoListAfterPick(cli, rvp) ==
    IF cli # <<>> /\ rvp # <<>> /\ pkg_edit # ""
    THEN /\ timers < MaxTimers
         /\ reset_select' = TRUE
         /\ timers' = timers + 1
    ELSE UNCHANGED <<reset_select, timers>>

\* pick_cli_file with a file chosen
PickCliFile ==
    /\ GuiIdle /\ Quiet
    /\ cli_jar' = <<CliPath>>
    /\ AutoListAfterPick(cli_jar', rvp_file)
    /\ UNCHANGED <<rvp_file, pkg_edit, include_universal, form, entries, list_widget,
                   _keep_idx, _keep_name, dynamic_option_widgets, pb_busy, drain_m, qin, qout,
                   wk_cmd, lp_vars, ext_vars>>

\* pick_rvp_file with the file p chosen
PickRvpFile(p) ==
    /\ GuiIdle /\ Quiet
    /\ rvp_file' = <<p>>
    /\ AutoListAfterPick(cli_jar, rvp_file')
    /\ UNCHANGED <<cli_jar, pkg_edit, include_universal, form, entries, list_widget,
                   _keep_idx, _keep_name, dynamic_option_widgets, pb_busy, drain_m, qin, qout,
                   wk_cmd, lp_vars, ext_vars>>

\* the user types a package name
EditPkg ==
    /\ GuiIdle /\ Quiet
    /\ \E p \in PkgEdits \ {pkg_edit} : pkg_edit' = p
    /\ UNCHANGED <<cli_jar, rvp_file, include_universal, form, entries, list_widget,
                   _keep_idx, _keep_name, reset_select, dynamic_option_widgets, pb_busy,
                   timers, drain_m, qin, qout, wk_cmd, lp_vars, ext_vars>>

\* the user fills in the build form
EditForm ==
    /\ GuiIdle /\ Quiet
    /\ \E f \in FormInputs \ {form} : form' = f
    /\ UNCHANGED <<cli_jar, rvp_file, pkg_edit, include_universal, entries, list_widget,
                   _keep_idx, _keep_name, reset_select, dynamic_option_widgets, pb_busy,
                   timers, drain_m, qin, qout, wk_cmd, lp_vars, ext_vars>>

\* the user flips the check box of an item: itemChanged -> _update_dynamic_options
ToggleItem ==
    /\ GuiIdle
    /\ \E k \in 1..Len(list_widget) :
          list_widget' = [list_widget EXCEPT ![k].checked = ~list_widget[k].checked]
    /\ dynamic_option_widgets' = UpdateDynamicOptions(entries, list_widget')
    /\ UNCHANGED <<cli_jar, rvp_file, pkg_edit, include_universal, form, entries,
                   _keep_idx, _keep_name, reset_select, pb_busy, timers, drain_m, qin, qout,
                   wk_cmd, lp_vars, ext_vars>>

\* apply_preset (with an empty list: a dialog only)
ApplyPreset ==
    /\ GuiIdle /\ Quiet
    /\ Len(list_widget) # 0
    /\ timers < MaxTimers
    /\ form' = [form EXCEPT !.update_perms = FALSE, !.update_providers = FALSE,
                            !.change_pkg_input = "", !.exclusive = TRUE]
    /\ include_universal' = FALSE
    /\ reset_select' = TRUE
    /\ timers' = timers + 1
    /\ UNCHANGED <<cli_jar, rvp_file, pkg_edit, entries, list_widget, _keep_idx, _keep_name,
                   dynamic_option_widgets, pb_busy, drain_m, qin, qout, wk_cmd, lp_vars, ext_vars>>

SetAdbPathMsg == [cmd |-> "set_adb_path", path |-> Strip(form.adb_path_edit)]

\* on_build up to its first dialog: CLI, bundle and APK are there
CanBuild == cli_jar # <<>> /\ rvp_file # <<>> /\ Strip(form.apk_edit) # ""

\* mutant: the output path of the vector carries a stamp of the moment of the call
OnBuild_Stamped ==
    /\ GuiIdle
    /\ CanBuild
    /\ CanSend
    /\ LET m == BuildMsg(cli_jar[1], rvp_file[1], entries, list_widget,
                         dynamic_option_widgets, pkg_edit, include_universal, form)
           n == Len(m.cmdline)
       IN  qin' = qin \o <<SetAdbPathMsg,
                            [m EXCEPT !.cmdline[n - 1] = @ \o "." \o IntToStr(Len(qout))]>>
    /\ pb_busy' = TRUE
    /\ UNCHANGED <<cli_jar, rvp_file, pkg_edit, include_universal, form, entries, list_widget,
                   _keep_idx, _keep_name, reset_select, dynamic_option_widgets, timers,
                   drain_m, qout, wk_cmd, lp_vars, ext_vars>>

\* on_build, the temporary folder accepted
OnBuild ==
    /\ GuiIdle
    /\ CanBuild
    /\ CanSend
    /\ qin' = qin \o <<SetAdbPathMsg,
                       BuildMsg(cli_jar[1], rvp_file[1], entries, list_widget,
                                dynamic_option_widgets, pkg_edit, include_universal, form)>>
    /\ pb_busy' = TRUE
    /\ UNCHANGED <<cli_jar, rvp_file, pkg_edit, include_universal, form, entries, list_widget,
                   _keep_idx, _keep_name, reset_select, dynamic_option_widgets, timers,
                   drain_m, qout, wk_cmd, lp_vars, ext_vars>>

\* on_build, the temporary folder refused (not a folder, not empty, the
\* project or output folder, or it cannot be created): set_adb_path is sent,
\* the build is not
OnBuildTmpRefused ==
    /\ GuiIdle
    /\ CanBuild
    /\ CanSend
    /\ qin' = Append(qin, SetAdbPathMsg)
    /\ UNCHANGED <<cli_jar, rvp_file, pkg_edit, include_universal, form, entries, list_widget,
                   _keep_idx, _keep_name, reset_select, dynamic_option_widgets, pb_busy,
                   timers, drain_m, qout, wk_cmd, lp_vars, ext_vars>>

\* serial_text.split()[0] if serial_text else "", serial_text the stripped text
\* of the device field
FirstWord(text) ==
    LET t == Strip(text)
    IN  IF t = "" THEN ""
        ELSE SubSeq(t, 1, Min({k \in 1..(Len(t) + 1) : k > Len(t) \/ IsSpace(Ch(t, k))}) - 1)

\* one turn of the loop of _drain_queues: m = self._qout.get_nowait().
\* _patches_to_check_on_load is always empty (apply_preset fills it under
\* "if False" only), so the patches branch ends with _update_dynamic_options;
\* the log widget is not part of the state
DrainStep ==
    /\ qout # <<>>
    /\ LET m == Head(qout)
       IN  /\ qout' = Tail(qout)
           /\ drain_m' = <<m.type>>
           /\ IF m.type = "patches"
              THEN /\ entries' = m.entries
                   /\ list_widget' = ItemsOf(m.entries, reset_select, _keep_idx, _keep_name)
                   /\ reset_select' = FALSE
                   /\ dynamic_option_widgets' = UpdateDynamicOptions(entries', list_widget')
                   /\ picker' = [k \in DOMAIN picker |-> [picker[k] EXCEPT !.shared = FALSE]]
              ELSE UNCHANGED <<entries, list_widget, reset_select, dynamic_option_widgets,
                               picker>>
           /\ pb_busy' = (IF m.type \in {"fail", "done", "build_end", "adb_install_ok"} THEN FALSE
                          ELSE IF m.type = "build_begin" THEN TRUE
                          ELSE IF m.type = "build_ok" THEN form.adb_install_check
                          ELSE pb_busy)
           /\ qin' = (IF m.type = "build_ok" /\ form.adb_install_check
                      THEN Append(qin, [cmd |-> "adb_install_apk",
                                        serial |-> FirstWord(form.adb_device_edit),
                                        apk |-> m.apk])
                      ELSE qin)
    /\ UNCHANGED <<cli_jar, rvp_file, pkg_edit, include_universal, form, _keep_idx, _keep_name,
                   timers, wk_cmd, wk_exit, lg_qin, lg_qout, lp_vars>>

\* get_nowait raises queue.Empty: the loop ends
DrainEnd ==
    /\ drain_m # <<>>
    /\ qout = <<>>
    /\ drain_m' = <<>>
    /\ UNCHANGED <<cli_jar, rvp_file, pkg_edit, include_universal, form, entries, list_widget,
                   _keep_idx, _keep_name, reset_select, dynamic_option_widgets, pb_busy,
                   timers, qin, qout, wk_cmd, lp_vars, ext_vars>>

\* worker_loop takes a command: msg = in_q.get()
WorkerHas(cmd) == ~wk_exit /\ wk_cmd = <<>> /\ qin # <<>> /\ Head(qin).cmd = cmd

WorkerFrame ==
    UNCHANGED <<cli_jar, rvp_file, pkg_edit, include_universal, form, entries, list_widget,
                _keep_idx, _keep_name, reset_select, dynamic_option_widgets, pb_busy, timers,
                drain_m, lp_vars, ext_vars>>

\* mutant: a failed run of the tool is answered with an empty patch list
WorkerListPatches_EmptyOnFail ==
    /\ WorkerHas("list_patches")
    /\ LET msg == Head(qin)
       IN  \E tool_ok \in BOOLEAN :
              qout' = qout
                      \o <<[type |-> "patches",
                            entries |-> IF tool_ok
                                        THEN FilterEntries(ToolEntries[msg.rvp], msg.pkg, msg.inc_univ)
                                        ELSE <<>>,
                            h_noreset |-> msg.h_noreset, h_keep |-> msg.h_keep,
                            h_tool_ok |-> tool_ok]>>
                      \o (IF tool_ok THEN <<>>
                          ELSE <<[type |-> "fail", error |-> "Worker Error (list_patches)",
                                  h_keep |-> msg.h_keep, h_tool_ok |-> tool_ok]>>)
    /\ qin' = Tail(qin)
    /\ wk_cmd' = <<"list_patches">>
    /\ WorkerFrame

\* handle_list_patches; a non-zero exit of the tool raises, and worker_loop
\* reports the failure.  h_keep and h_tool_ok are history fields: the selection
\* saved with the request, and whether the tool exited with 0
WorkerListPatches ==
    /\ WorkerHas("list_patches")
    /\ LET msg == Head(qin)
       IN  \E tool_ok \in BOOLEAN :
              qout' = Append(qout,
                        IF tool_ok
                        THEN [type |-> "patches",
                              entries |-> FilterEntries(ToolEntries[msg.rvp], msg.pkg, msg.inc_univ),
                              h_noreset |-> msg.h_noreset, h_keep |-> msg.h_keep,
                              h_tool_ok |-> tool_ok]
                        ELSE [type |-> "fail", error |-> "Worker Error (list_patches)",
                              h_keep |-> msg.h_keep, h_tool_ok |-> tool_ok])
    /\ qin' = Tail(qin)
    /\ wk_cmd' = <<"list_patches">>
    /\ WorkerFrame

\* handle_set_adb_path: emit_adb_path_set sends nothing for an empty path
WorkerSetAdbPath ==
    /\ WorkerHas("set_adb_path")
    /\ qout' = (IF Head(qin).path = "" THEN qout
                ELSE Append(qout, [type |-> "adb_path_set", path |-> Head(qin).path, ok |-> TRUE]))
    /\ qin' = Tail(qin)
    /\ wk_cmd' = <<"set_adb_path">>
    /\ WorkerFrame

\* mutant: the tool is run a second time
RunStreamWorker_Retry ==
    <<[type |-> "log", text |-> ToolLine], [type |-> "log", text |-> ToolLine]>>

\* _run_stream_worker: every line the tool prints becomes a log message
RunStreamWorker == <<[type |-> "log", text |-> ToolLine]>>

\* handle_build, with the failure report of worker_loop when Popen raises;
\* h_exit is a history field: how the run of the tool ended
WorkerBuild ==
    /\ WorkerHas("build")
    /\ LET msg == Head(qin)
           begin == <<[type |-> "build_begin"], [type |-> "log", text |-> CmdLogLine(msg.cmdline)]>>
       IN  \E outcome \in BuildOutcomes :
              qout' = qout \o begin
                      \o (IF outcome = <<>> THEN <<>>
                          ELSE RunStreamWorker
                               \o (IF outcome[1] = 0
                                   THEN <<[type |-> "build_ok", apk |-> msg.out_apk]>>
                                   ELSE <<[type |-> "fail", error |-> FailText(outcome[1])]>>))
                      \o <<[type |-> "log", text |-> "[CLEAN]"],
                           [type |-> "build_end", h_exit |-> outcome]>>
                      \o (IF outcome = <<>>
                          THEN <<[type |-> "fail", error |-> "Worker Error (build)"]>> ELSE <<>>)
    /\ qin' = Tail(qin)
    /\ wk_cmd' = <<"build">>
    /\ WorkerFrame

\* the last statement of the loop body: out_q.put({"type":"done"})
WorkerDone ==
    /\ wk_cmd # <<>>
    /\ qout' = Append(qout, [type |-> "done"])
    /\ wk_cmd' = <<>>
    /\ UNCHANGED qin
    /\ WorkerFrame

\* Spec: the patch list over reloads
Next ==
    \/ PickCliFile \/ (\E p \in RvpInputs : PickRvpFile(p))
    \/ ClickListPatches \/ TimerFire
    \/ ToggleItem \/ ApplyPreset
    \/ DrainStep \/ DrainEnd
    \/ WorkerListPatches \/ WorkerDone

Spec == Init /\ [][Next]_vars

\* SpecBuild: a patch list is loaded and a build is started
BuildNext ==
    \/ PickCliFile \/ PickRvpFile(RvpC) \/ EditPkg \/ EditForm
    \/ ClickListPatches \/ ToggleIncludeUniversal \/ TimerFire
    \/ ToggleItem
    \/ OnBuild \/ OnBuildTmpRefused
    \/ DrainStep \/ DrainEnd
    \/ WorkerListPatches \/ WorkerSetAdbPath \/ WorkerBuild \/ WorkerDone

SpecBuild == Init /\ [][BuildNext]_vars


(***************************************************************************)
(* SpecCompile: on_build on a loaded patch list.  Bundle d has been listed *)
(* with an empty package field; the user then fills in the form and the    *)
(* package field, flips check boxes, types into one option field and       *)
(* presses build.                                                          *)
(***************************************************************************)
\* the package field when build is pressed
CompilePkgs == {"", "com.other"}

\* the forms: every combination of the four signing fields, and every
\* combination of the other fields on_build reads
CredForms ==
    {[FormFilled EXCEPT !.keystore_edit = k, !.ks_pass = p, !.alias = a, !.alias_pass = q] :
        k \in {"", "/k/my.jks"}, p \in {"", "pw"}, a \in {"", "key0"}, q \in {"", " kp "}}
FlagForms ==
    {[FormFilled EXCEPT !.exclusive = x, !.change_pkg_input = c, !.update_perms = u,
                        !.update_providers = v, !.tmp_dir_edit = t] :
        x \in BOOLEAN, c \in {"", " com.foo.clone"}, u \in BOOLEAN, v \in BOOLEAN,
        t \in {"", "tmp/w"}}
CompileForms == CredForms \cup FlagForms

\* what the user types into an option field
OptionTexts == {"", "7", "a, b"}

CompileInit ==
    /\ cli_jar = <<CliPath>> /\ rvp_file = <<RvpD>>
    /\ include_universal \in BOOLEAN
    /\ pkg_edit \in CompilePkgs
    /\ form \in CompileForms
    /\ entries = FilterEntries(ToolEntries[RvpD], "", include_universal)
    /\ list_widget = ItemsOf(entries, TRUE, {}, {})
    /\ _keep_idx = {} /\ _keep_name = {}
    /\ reset_select = FALSE
    /\ dynamic_option_widgets = UpdateDynamicOptions(entries, list_widget)
    /\ pb_busy = FALSE
    /\ timers = 0
    /\ drain_m = <<>>
    /\ qin = <<>> /\ qout = <<>>
    /\ wk_cmd = <<>>
    /\ ExtInit
    /\ lp_src = <<>> /\ lp_text = "" /\ lp_pkg = "" /\ lp_inc_univ = FALSE
    /\ lp_entries = <<>> /\ lp_rows = <<>> /\ lp_rows2 = <<>> /\ lp_pc = "off"

\* the user types into one option field (a QLineEdit of dynamic_option_widgets)
\* while the fields hold what _update_dynamic_options put there
EditOption ==
    /\ GuiIdle /\ Quiet
    /\ dynamic_option_widgets = UpdateDynamicOptions(entries, list_widget)
    /\ \E k \in 1..Len(dynamic_option_widgets) :
          \E t \in OptionTexts \ {dynamic_option_widgets[k][2].text} :
             dynamic_option_widgets' =
                [dynamic_option_widgets EXCEPT ![k] = <<@[1], [@[2] EXCEPT !.text = t]>>]
    /\ UNCHANGED <<cli_jar, rvp_file, pkg_edit, include_universal, form, entries, list_widget,
                   _keep_idx, _keep_name, reset_select, pb_busy, timers, drain_m, qin, qout,
                   wk_cmd, lp_vars, ext_vars>>

CompileNext == ToggleItem \/ EditOption \/ OnBuild

SpecCompile == CompileInit /\ [][CompileNext]_vars

(***************************************************************************)
(* SpecWorker: builds of the loaded list of bundle d with one form, from   *)
(* on_build through worker_loop and handle_build back to _drain_queues     *)
(***************************************************************************)
WorkerInit == CompileInit /\ form = FormFilled

WorkerNext ==
    \/ OnBuild
    \/ WorkerSetAdbPath \/ WorkerBuild \/ WorkerDone
    \/ DrainStep \/ DrainEnd

SpecWorker == WorkerInit /\ [][WorkerNext]_vars

(***************************************************************************)
(* SpecReload: reloads of a loaded list.  Bundle d is loaded for package   *)
(* com.foo.bar, the user has checked what they want and filled in the      *)
(* form; they apply the preset, press the refresh button and flip the      *)
(* include-universal box while up to MaxInFlight messages are under way.   *)
(***************************************************************************)
MaxInFlight == 2

ReloadPkg == "com.foo.bar"

\* the indices the user has checked before the reloads
ReloadChecked == SUBSET {9, 4}

ReloadInit ==
    /\ cli_jar = <<CliPath>> /\ rvp_file = <<RvpD>>
    /\ pkg_edit = ReloadPkg
    /\ include_universal = TRUE
    /\ form = FormFilled
    /\ entries = FilterEntries(ToolEntries[RvpD], pkg_edit, include_universal)
    /\ \E on \in ReloadChecked : list_widget = ItemsOf(entries, FALSE, on, {})
    /\ _keep_idx = {} /\ _keep_name = {}
    /\ reset_select = FALSE
    /\ dynamic_option_widgets = UpdateDynamicOptions(entries, list_widget)
    /\ pb_busy = FALSE
    /\ timers = 0
    /\ drain_m = <<>>
    /\ qin = <<>> /\ qout = <<>>
    /\ wk_cmd = <<>>
    /\ ExtInit
    /\ lp_src = <<>> /\ lp_text = "" /\ lp_pkg = "" /\ lp_inc_univ = FALSE
    /\ lp_entries = <<>> /\ lp_rows = <<>> /\ lp_rows2 = <<>> /\ lp_pc = "off"

ReloadNext ==
    \/ ApplyPreset
    \/ ClickListPatchesWithin(MaxInFlight)
    \/ ToggleIncludeUniversalWithin(MaxInFlight)
    \/ TimerFireWithin(MaxInFlight)
    \/ DrainStep \/ DrainEnd
    \/ WorkerListPatches \/ WorkerDone

SpecReload == ReloadInit /\ [][ReloadNext]_vars

(***************************************************************************)
(* worker_loop and the handlers behind the install, ADB and shutdown       *)
(* commands                                                                *)
(***************************************************************************)
\* the widgets and fields of App a step of the worker leaves alone
app_vars ==
    <<cli_jar, rvp_file, pkg_edit, include_universal, form, entries, list_widget, _keep_idx,
      _keep_name, reset_select, dynamic_option_widgets, pb_busy, timers, drain_m>>

\* HANDLERS of worker.py
HandlerNames ==
    {"set_adb_path", "env_check", "install_java", "install_git", "install_adb",
     "download_components", "detect_package", "list_patches", "build", "adb_devices",
     "adb_devices_silent", "adb_install_apk", "adb_kill"}

\* the None closeEvent puts on the queue
NoneMsg == [cmd |-> "<None>"]

InstallCmds == {"install_java", "install_git", "install_adb"}

\* what an installation meets: the platform, whether the platform's package
\* tool is there (winget, brew; for install_adb: an adb that exists already),
\* and how it goes: "ok", "failed" (the tool exits with 1, nothing to unpack)
\* or "raises" (a process cannot be started, the download raises)
Platforms == {"windows", "darwin", "linux"}
InstallResults == {"ok", "failed", "raises"}
InstallEnvs == [os : Platforms, tool : BOOLEAN, result : InstallResults]

\* an install command; h_env is a history field: what its installation meets
InstallMsg(cmd, env) == [cmd |-> cmd, h_env |-> env]

Log(text) == [type |-> "log", text |-> text]
Fail(error) == [type |-> "fail", error |-> error]
Done == [type |-> "done"]

\* what a handler does: the messages it puts, and whether it raises then
Returns(out) == [out |-> out, raised |-> FALSE]
Raises(out) == [out |-> out, raised |-> TRUE]

\* handle_install_java (the texts of its fail messages in English)
HandleInstallJava(env) ==
    IF env.os = "windows" /\ env.tool
    THEN LET winget == <<Log("winget Temurin 17")>>
         IN  IF env.result = "raises" THEN Raises(winget)
             ELSE IF env.result = "ok" THEN Returns(winget \o RunStreamWorker)
             ELSE Returns(winget \o RunStreamWorker \o <<Log("winget: no Java, trying MSI")>>
                          \o <<Fail("MSI url not found")>>)
    ELSE IF env.os = "windows"
    THEN IF env.result = "raises" THEN Raises(<<>>)
         ELSE IF env.result = "ok" THEN Returns(RunStreamWorker)
         ELSE Returns(RunStreamWorker \o <<Fail("msiexec " \o FailText(1))>>)
    ELSE IF env.os = "darwin" /\ env.tool
    THEN IF env.result = "raises" THEN Raises(<<>>)
         ELSE IF env.result = "ok" THEN Returns(RunStreamWorker)
         ELSE Returns(RunStreamWorker \o <<Fail("brew " \o FailText(1))>>)
    ELSE IF env.result = "raises" THEN Raises(<<>>)
         ELSE IF env.result = "ok" THEN Returns(RunStreamWorker)
         ELSE Returns(RunStreamWorker \o RunStreamWorker \o RunStreamWorker
                      \o <<Fail("java install failed")>>)

\* handle_install_git
HandleInstallGit(env) ==
    IF env.result = "raises" THEN Raises(<<>>)
    ELSE IF env.os = "windows" /\ env.tool
    THEN IF env.result = "ok" THEN Returns(RunStreamWorker)
         ELSE Returns(RunStreamWorker \o <<Fail("winget git " \o FailText(1))>>)
    ELSE IF env.os = "darwin" /\ env.tool
    THEN IF env.result = "ok" THEN Returns(RunStreamWorker)
         ELSE Returns(RunStreamWorker \o <<Fail("brew git failed")>>)
    ELSE IF env.result = "ok" THEN Returns(RunStreamWorker)
         ELSE Returns(RunStreamWorker \o RunStreamWorker \o RunStreamWorker
                      \o <<Fail("git install failed")>>)

AdbPath == "/opt/platform-tools/adb"

\* handle_install_adb: an exception of the search or the download is caught
\* by the handler itself
HandleInstallAdb(env) ==
    IF env.result = "raises" THEN Returns(<<Fail("ADB install exception")>>)
    ELSE IF env.result = "ok"
    THEN Returns(<<Log(IF env.tool THEN "[SKIP] ADB exists" ELSE "[SET] ADB path"),
                   [type |-> "adb_path_set", path |-> AdbPath, ok |-> TRUE],
                   Log("[ADB] installed, server checked")>>)
    ELSE Returns(<<Fail("ADB install failed")>>)

HandleInstall(msg) ==
    IF msg.cmd = "install_java" THEN HandleInstallJava(msg.h_env)
    ELSE IF msg.cmd = "install_git" THEN HandleInstallGit(msg.h_env)
    ELSE HandleInstallAdb(msg.h_env)

\* the error text of the except clause of worker_loop (a traceback follows it)
WorkerError(cmd) == "Worker Error (" \o cmd \o ")"

\* the frame of a step of the worker that takes a command
TakeFrame == UNCHANGED <<app_vars, lp_vars, ext_vars>>

\* worker_loop with one of the three install commands
WorkerInstall ==
    /\ ~wk_exit /\ wk_cmd = <<>> /\ qin # <<>> /\ Head(qin).cmd \in InstallCmds
    /\ LET msg == Head(qin)
           run == HandleInstall(msg)
       IN  /\ qout' = qout \o run.out
                      \o (IF run.raised THEN <<Fail(WorkerError(msg.cmd))>> ELSE <<>>)
           /\ qin' = Tail(qin) \o (IF run.raised THEN <<>> ELSE <<[cmd |-> "env_check"]>>)
           /\ wk_cmd' = <<msg.cmd>>
    /\ TakeFrame

\* mutant: a command without a handler is dropped without a word
WorkerUnknown_Silent ==
    /\ ~wk_exit /\ wk_cmd = <<>> /\ qin # <<>>
    /\ Head(qin).cmd \notin HandlerNames \cup {NoneMsg.cmd}
    /\ qin' = Tail(qin)
    /\ wk_cmd' = <<Head(qin).cmd>>
    /\ UNCHANGED qout
    /\ TakeFrame

\* worker_loop with a command HANDLERS does not know
WorkerUnknown ==
    /\ ~wk_exit /\ wk_cmd = <<>> /\ qin # <<>>
    /\ Head(qin).cmd \notin HandlerNames \cup {NoneMsg.cmd}
    /\ qout' = Append(qout, Fail("unknown command: " \o Head(qin).cmd))
    /\ qin' = Tail(qin)
    /\ wk_cmd' = <<Head(qin).cmd>>
    /\ TakeFrame

\* a device as adb_list_devices reports it
Device(serial, state) == [serial |-> serial, state |-> state]

\* validate_devices_ready: is every listed device ready, and what is put
ValidateDevicesReady(adb_ok, devs, context) ==
    LET silent == context \in {"env_check", "init"}
        report(text) == IF silent THEN <<Log(text)>> ELSE <<Fail(text)>>
    IN  IF ~adb_ok THEN [ok |-> FALSE, out |-> <<>>]
        ELSE IF devs = <<>>
        THEN [ok |-> FALSE, out |-> report("[ADB] no device (" \o context \o ")")]
        ELSE IF \E i \in 1..Len(devs) : devs[i].state # "device"
        THEN [ok |-> FALSE, out |-> report("[ADB] device not ready (" \o context \o ")")]
        ELSE [ok |-> TRUE, out |-> <<>>]

\* adb_start_server(out_q): "adb get-state" answers "device" when one device
\* is attached and ready
AdbStartServer(adb_ok, devs) ==
    IF adb_ok /\ Len(devs) = 1 /\ devs[1].state = "device"
    THEN <<Log("[ADB] server ready")>> ELSE <<>>

\* what an environment check finds
EnvChecks ==
    {[java_ok |-> FALSE, adb_ok |-> FALSE, devs |-> <<>>],
     [java_ok |-> TRUE, adb_ok |-> TRUE, devs |-> <<>>],
     [java_ok |-> TRUE, adb_ok |-> TRUE, devs |-> <<Device("S1", "device")>>]}

\* handle_env_check
WorkerEnvCheck ==
    /\ WorkerHas("env_check")
    /\ \E e \in EnvChecks :
          qout' = qout
                  \o <<[type |-> "env", java_ok |-> e.java_ok, adb_ok |-> e.adb_ok]>>
                  \o (IF e.adb_ok THEN <<[type |-> "adb_path_set", path |-> AdbPath, ok |-> TRUE]>>
                      ELSE <<>>)
                  \o AdbStartServer(e.adb_ok, e.devs)
                  \o ValidateDevicesReady(e.adb_ok, e.devs, "env_check").out
                  \o (IF ValidateDevicesReady(e.adb_ok, e.devs, "env_check").ok
                      THEN <<[type |-> "adb_devices", devices |-> e.devs]>> ELSE <<>>)
    /\ qin' = Tail(qin)
    /\ wk_cmd' = <<"env_check">>
    /\ TakeFrame

\* handle_adb_kill: "adb kill-server", nothing is put
WorkerAdbKill ==
    /\ WorkerHas("adb_kill")
    /\ qin' = Tail(qin)
    /\ wk_cmd' = <<"adb_kill">>
    /\ UNCHANGED qout
    /\ TakeFrame

\* mutant: the loop goes on after None as long as commands wait
WorkerExit_SkipsNone ==
    /\ ~wk_exit /\ wk_cmd = <<>> /\ qin # <<>> /\ Head(qin) = NoneMsg
    /\ qin' = Tail(qin)
    /\ wk_exit' = (Tail(qin) = <<>>)
    /\ UNCHANGED <<qout, wk_cmd, picker, lg_qin, lg_qout, app_vars, lp_vars>>

\* worker_loop takes None: break
WorkerExit ==
    /\ ~wk_exit /\ wk_cmd = <<>> /\ qin # <<>> /\ Head(qin) = NoneMsg
    /\ qin' = Tail(qin)
    /\ wk_exit' = TRUE
    /\ UNCHANGED <<qout, wk_cmd, picker, lg_qin, lg_qout, app_vars, lp_vars>>

\* the window has been closed
Closed == wk_exit \/ InSeq(NoneMsg, qin)

\* closeEvent
CloseEvent ==
    /\ GuiIdle
    /\ ~Closed
    /\ qin' = qin \o <<[cmd |-> "adb_kill"], NoneMsg>>
    /\ UNCHANGED <<qout, wk_cmd, app_vars, lp_vars, ext_vars>>

\* one turn of worker_loop of revanced_gui.py with an install command.  Its
\* install branches put the messages the handlers of worker_handlers.py put
\* (the code was moved there); what follows them is their own: "done" and the
\* follow-up check on success, "done" alone on failure and in the except
\* clause of the loop, and after a successful install_adb the follow-up check
\* without "done"
LegacyInstall(msg) ==
    LET run == HandleInstall(msg)
        ok == msg.h_env.result = "ok"
    IN  IF run.raised
        THEN [out |-> run.out \o <<Fail("exception"), Done>>, requeue |-> FALSE]
        ELSE IF msg.cmd = "install_adb" /\ ok
        THEN [out |-> run.out, requeue |-> TRUE]
        ELSE [out |-> run.out \o <<Done>>, requeue |-> ok]

LegacyWorkerInstall ==
    /\ lg_qin # <<>> /\ Head(lg_qin).cmd \in InstallCmds
    /\ lg_qout' = lg_qout \o LegacyInstall(Head(lg_qin)).out
    /\ lg_qin' = Tail(lg_qin)
                 \o (IF LegacyInstall(Head(lg_qin)).requeue THEN <<[cmd |-> "env_check"]>>
                     ELSE <<>>)
    /\ UNCHANGED <<qin, qout, wk_cmd, wk_exit, picker, app_vars, lp_vars>>

\* the window after start-up: the worker waits, the progress bar is busy with
\* the commands sent
LoopBase ==
    /\ cli_jar = <<>> /\ rvp_file = <<>>
    /\ pkg_edit = "" /\ include_universal = FALSE
    /\ form = FormDefault
    /\ entries = <<>> /\ list_widget = <<>>
    /\ _keep_idx = {} /\ _keep_name = {}
    /\ reset_select = TRUE
    /\ dynamic_option_widgets = <<>>
    /\ pb_busy = TRUE
    /\ timers = 0
    /\ drain_m = <<>>
    /\ qout = <<>> /\ wk_cmd = <<>>
    /\ wk_exit = FALSE /\ picker = <<>> /\ lg_qout = <<>>
    /\ lp_src = <<>> /\ lp_text = "" /\ lp_pkg = "" /\ lp_inc_univ = FALSE
    /\ lp_entries = <<>> /\ lp_rows = <<>> /\ lp_rows2 = <<>> /\ lp_pc = "off"

(***************************************************************************)
(* SpecInstall: one install command, given to worker_loop of worker.py and *)
(* to worker_loop of revanced_gui.py                                       *)
(***************************************************************************)
InstallInit ==
    /\ LoopBase
    /\ \E cmd \in InstallCmds, env \in InstallEnvs : qin = <<InstallMsg(cmd, env)>>
    /\ lg_qin = qin

InstallNext == WorkerInstall \/ WorkerDone \/ LegacyWorkerInstall

SpecInstall == InstallInit /\ [][InstallNext]_vars

(***************************************************************************)
(* SpecLoop: worker_loop of worker.py with up to MaxCmds commands waiting,  *)
(* until the window is closed and the loop returns                         *)
(***************************************************************************)
MaxCmds == 2

\* the commands that wait: one without a handler, handlers that return,
\* handlers that may raise
LoopCmds ==
    {[cmd |-> "frobnicate"],
     [cmd |-> "set_adb_path", path |-> AdbPath],
     [cmd |-> "env_check"],
     InstallMsg("install_git", [os |-> "linux", tool |-> FALSE, result |-> "ok"]),
     InstallMsg("install_git", [os |-> "linux", tool |-> FALSE, result |-> "failed"]),
     InstallMsg("install_java", [os |-> "windows", tool |-> TRUE, result |-> "raises"]),
     [cmd |-> "list_patches", cli |-> CliPath, rvp |-> RvpD, pkg |-> "", inc_univ |-> FALSE,
      h_noreset |-> FALSE, h_keep |-> [idx |-> {}, name |-> {}]],
     BuildMsg(CliPath, RvpD, <<>>, <<>>, <<>>, "", FALSE, FormFilled)}

LoopInit ==
    /\ LoopBase
    /\ qin \in UNION {[1..n -> LoopCmds] : n \in 0..MaxCmds}
    /\ lg_qin = <<>>

\* a step of worker_loop
WorkerStep ==
    \/ WorkerUnknown \/ WorkerSetAdbPath \/ WorkerEnvCheck \/ WorkerInstall
    \/ WorkerListPatches \/ WorkerBuild \/ WorkerAdbKill
    \/ WorkerDone \/ WorkerExit

LoopNext == CloseEvent \/ WorkerStep

SpecLoop == LoopInit /\ [][LoopNext]_vars

\* the worker process runs on, and every call of a handler returns
SpecLoopFair == SpecLoop /\ WF_vars(WorkerStep)

(***************************************************************************)
(* handle_adb_install_apk, and SpecAdb: builds with "install via ADB after *)
(* build" checked                                                          *)
(***************************************************************************)
\* sub in s
Contains(s, sub) == \E i \in 1..(Len(s) - Len(sub) + 1) : SubSeq(s, i, i + Len(sub) - 1) = sub

\* what "adb devices -l" lists
DeviceLists ==
    {<<>>,
     <<Device("S1", "device")>>,
     <<Device("S1", "unauthorized")>>,
     <<Device("S1", "device"), Device("S2", "device")>>,
     <<Device("S1", "device"), Device("S2", "offline")>>}

\* how "adb install" ends: exit code and output
InstallEnds ==
    {[code |-> 0, txt |-> "Performing Streamed Install\nSuccess\n"],
     [code |-> 0, txt |-> "Failure [INSTALL_FAILED_VERSION_DOWNGRADE]\n"],
     [code |-> 1, txt |-> "adb: failed to install: no success\n"]}

\* what the installation meets: is the APK there, is an adb there, the
\* devices it lists, the end of "adb install"
AdbEnvs ==
    {e \in [apk_exists : BOOLEAN, adb_ok : BOOLEAN, devs : DeviceLists, install : InstallEnds] :
        ~e.adb_ok => e.devs = <<>>}

\* mutant: the installation goes to the first device when several are listed
HandleAdbInstallApk_FirstDevice(msg, env) ==
    LET serial == Strip(msg.serial)
        begin == <<Log("[ADB] installing")>> \o AdbStartServer(env.adb_ok, env.devs)
        ready == ValidateDevicesReady(env.adb_ok, env.devs, "install")
    IN  IF ~env.apk_exists
        THEN [out |-> <<Log("[ADB] installing"), Fail("APK path is not valid")>>, ran |-> FALSE]
        ELSE IF ~ready.ok THEN [out |-> begin \o ready.out, ran |-> FALSE]
        ELSE IF env.install.code = 0 /\ Contains(LowerStr(env.install.txt), "success")
        THEN [out |-> begin \o <<Log("[ADB] install ok"),
                                 [type |-> "adb_install_ok", apk |-> msg.apk,
                                  serial |-> IF serial # "" THEN serial
                                             ELSE env.devs[1].serial]>>,
              ran |-> TRUE]
        ELSE [out |-> begin \o <<Fail("ADB install failed (" \o FailText(env.install.code)
                                      \o ")\n" \o Strip(env.install.txt))>>,
              ran |-> TRUE]

\* handle_adb_install_apk: the messages it puts, and whether it ran
\* "adb install"
HandleAdbInstallApk(msg, env) ==
    LET serial == Strip(msg.serial)
        begin == <<Log("[ADB] installing")>> \o AdbStartServer(env.adb_ok, env.devs)
        ready == ValidateDevicesReady(env.adb_ok, env.devs, "install")
    IN  IF ~env.apk_exists
        THEN [out |-> <<Log("[ADB] installing"), Fail("APK path is not valid")>>, ran |-> FALSE]
        ELSE IF ~ready.ok THEN [out |-> begin \o ready.out, ran |-> FALSE]
        ELSE IF serial = "" /\ Len(env.devs) > 1
        THEN [out |-> begin \o <<Fail("several devices, give a serial")>>, ran |-> FALSE]
        ELSE IF env.install.code = 0 /\ Contains(LowerStr(env.install.txt), "success")
        THEN [out |-> begin \o <<Log("[ADB] install ok"),
                                 [type |-> "adb_install_ok", apk |-> msg.apk,
                                  serial |-> IF serial # "" THEN serial
                                             ELSE env.devs[1].serial]>>,
              ran |-> TRUE]
        ELSE [out |-> begin \o <<Fail("ADB install failed (" \o FailText(env.install.code)
                                      \o ")\n" \o Strip(env.install.txt))>>,
              ran |-> TRUE]

\* worker_loop with adb_install_apk.  h_msg, h_env and h_ran are history
\* fields of the first message: the command, what the installation met, and
\* whether "adb install" ran
WorkerAdbInstallApk ==
    /\ WorkerHas("adb_install_apk")
    /\ \E env \in AdbEnvs :
          LET run == HandleAdbInstallApk(Head(qin), env)
          IN  qout' = qout
                      \o <<[type |-> "log", text |-> run.out[1].text, h_msg |-> Head(qin),
                            h_env |-> env, h_ran |-> run.ran]>>
                      \o Tail(run.out)
    /\ qin' = Tail(qin)
    /\ wk_cmd' = <<"adb_install_apk">>
    /\ TakeFrame

\* what the device field holds
DeviceTexts == {"", " S2  (Pixel 8)"}

\* bundle d loaded, its enabled patch checked, the form filled in
AdbInit ==
    /\ cli_jar = <<CliPath>> /\ rvp_file = <<RvpD>>
    /\ include_universal = FALSE
    /\ pkg_edit = ""
    /\ \E t \in DeviceTexts :
          form = [FormFilled EXCEPT !.adb_install_check = TRUE, !.adb_device_edit = t]
    /\ entries = FilterEntries(ToolEntries[RvpD], "", include_universal)
    /\ list_widget = ItemsOf(entries, TRUE, {}, {})
    /\ _keep_idx = {} /\ _keep_name = {}
    /\ reset_select = FALSE
    /\ dynamic_option_widgets = UpdateDynamicOptions(entries, list_widget)
    /\ pb_busy = FALSE
    /\ timers = 0
    /\ drain_m = <<>>
    /\ qin = <<>> /\ qout = <<>>
    /\ wk_cmd = <<>>
    /\ ExtInit
    /\ lp_src = <<>> /\ lp_text = "" /\ lp_pkg = "" /\ lp_inc_univ = FALSE
    /\ lp_entries = <<>> /\ lp_rows = <<>> /\ lp_rows2 = <<>> /\ lp_pc = "off"

AdbNext ==
    \/ OnBuild
    \/ WorkerSetAdbPath \/ WorkerBuild \/ WorkerAdbInstallApk \/ WorkerDone
    \/ DrainStep \/ DrainEnd

SpecAdb == AdbInit /\ [][AdbNext]_vars

(***************************************************************************)
(* gui.py: the patch picker dialog and the import of a selection           *)
(***************************************************************************)
\* the rows _rebuild puts into the table for the search text q (_apply_filter;
\* every row for an empty text): positions in _all_rows
PickerRows(rows, q) ==
    LET t == LowerStr(Strip(q))
    IN  SelectSeq([i \in 1..Len(rows) |-> i],
                  LAMBDA i : \/ t = ""
                             \/ Contains(LowerStr(rows[i].name), t)
                             \/ \E p \in 1..Len(rows[i].packages) :
                                   Contains(LowerStr(rows[i].packages[p]), t))

\* the text of the Index cell of a row: str(e.get("index"))
IndexCell(e) == IF e.index = <<>> THEN "None" ELSE IntToStr(e.index[1])

\* str.isdigit()
IsDigitStr(s) == s # "" /\ \A k \in 1..Len(s) : Ch(s, k) \in DigitSet

\* the checked rows of the table, in table order
CheckedRows(rows, q) ==
    SelectSeq(PickerRows(rows, q), LAMBDA i : rows[i].enabled = <<TRUE>>)

\* PatchPickerDialog.get_enabled: the indices (int of the Index cell, where it
\* is a number) and the names of the checked rows of the table
GetEnabled(rows, q) ==
    LET on == CheckedRows(rows, q)
        ok == SelectSeq(on, LAMBDA i : IsDigitStr(IndexCell(rows[i])))
    IN  [idxs |-> [k \in 1..Len(ok) |-> StrToInt(IndexCell(rows[ok[k]]))],
         names |-> [k \in 1..Len(on) |-> rows[on[k]].name]]

\* the check states open_patch_picker gives the items after the dialog was
\* accepted with the result got
AcceptedItems(items, got) ==
    LET want == {got.idxs[k] : k \in 1..Len(got.idxs)}
    IN  [i \in 1..Len(items) |->
            [items[i] EXCEPT !.checked =
                IF LabelIndex(items[i].text) # <<>>
                THEN LabelIndex(items[i].text)[1] \in want
                ELSE \E k \in 1..Len(got.names) :
                        \/ ExtractItemName(items[i].text) = got.names[k]
                        \/ Contains(ExtractItemName(items[i].text), got.names[k])]]

\* the entries as open_patch_picker marks them before it builds the dialog:
\* enabled iff the index or the name is the one of a checked item
MarkEnabled(ents, items) ==
    LET on == CheckedItems(items)
        enabled_idx == {LabelIndex(items[k].text)[1] :
                          k \in {c \in on : LabelIndex(items[c].text) # <<>>}}
        enabled_name == {ExtractItemName(items[k].text) : k \in on}
    IN  [i \in 1..Len(ents) |->
            [ents[i] EXCEPT !.enabled =
                <<\/ ents[i].index # <<>> /\ ents[i].index[1] \in enabled_idx
                  \/ ents[i].name \in enabled_name>>]]

PickerFrame ==
    UNCHANGED <<cli_jar, rvp_file, pkg_edit, include_universal, form, _keep_idx, _keep_name,
                reset_select, pb_busy, timers, drain_m, qin, qout, wk_cmd, wk_exit,
                lg_qin, lg_qout, lp_vars>>

\* open_patch_picker up to dlg.exec() (with no entries: a message box only)
OpenPatchPicker ==
    /\ GuiIdle
    /\ entries # <<>>
    /\ entries' = MarkEnabled(entries, list_widget)
    /\ picker' = <<[q |-> "", rows |-> entries', shared |-> TRUE]>>
    /\ UNCHANGED <<list_widget, dynamic_option_widgets>>
    /\ PickerFrame

\* stateChanged of the boxes of the rows in S, each set to the value on gives
\* it: entry["enabled"] is written; the records are those of self.entries as
\* long as no reload has replaced them
SetRows(S, on) ==
    LET d == picker[1]
        rows == [i \in 1..Len(d.rows) |->
                   IF i \in S THEN [d.rows[i] EXCEPT !.enabled = <<on[i]>>]
                   ELSE d.rows[i]]
    IN  /\ picker' = <<[d EXCEPT !.rows = rows]>>
        /\ entries' = (IF d.shared THEN rows ELSE entries)
        /\ UNCHANGED <<list_widget, dynamic_option_widgets>>
        /\ PickerFrame

ShownRows == {PickerRows(picker[1].rows, picker[1].q)[k] :
                k \in 1..Len(PickerRows(picker[1].rows, picker[1].q))}

\* the user ticks or unticks the box of a row: stateChanged writes the record
PickerToggle ==
    /\ drain_m = <<>> /\ picker # <<>>
    /\ \E r \in ShownRows : SetRows({r}, [i \in ShownRows |-> picker[1].rows[i].enabled # <<TRUE>>])

\* _select_all, _unselect_all: the boxes of the rows of the table
PickerSelectAll ==
    /\ drain_m = <<>> /\ picker # <<>>
    /\ SetRows(ShownRows, [i \in ShownRows |-> TRUE])

PickerUnselectAll ==
    /\ drain_m = <<>> /\ picker # <<>>
    /\ SetRows(ShownRows, [i \in ShownRows |-> FALSE])

\* what the user types into the search field
PickerQueries == {"", " Remove"}

\* search.textChanged -> _apply_filter: the table is rebuilt
PickerSearch ==
    /\ drain_m = <<>> /\ picker # <<>>
    /\ \E q \in PickerQueries \ {picker[1].q} : picker' = <<[picker[1] EXCEPT !.q = q]>>
    /\ UNCHANGED <<entries, list_widget, dynamic_option_widgets>>
    /\ PickerFrame

\* the dialog is accepted: the rest of open_patch_picker
PickerAccept ==
    /\ drain_m = <<>> /\ picker # <<>>
    /\ list_widget' = AcceptedItems(list_widget, GetEnabled(picker[1].rows, picker[1].q))
    /\ dynamic_option_widgets' = UpdateDynamicOptions(entries, list_widget')
    /\ picker' = <<>>
    /\ UNCHANGED entries
    /\ PickerFrame

\* the dialog is rejected
PickerReject ==
    /\ drain_m = <<>> /\ picker # <<>>
    /\ picker' = <<>>
    /\ UNCHANGED <<entries, list_widget, dynamic_option_widgets>>
    /\ PickerFrame

\* re.match(r'^\[(\d+)\]\s+', text): int(group(1)), or None
ImportIndex(text) ==
    LET b == BracketEnd(text)
    IN  IF b # 0 /\ SkipSpaces(text, b) > b THEN <<StrToInt(SubSeq(text, 2, b - 2))>> ELSE <<>>

\* the lines of the files the user imports
ImportFiles == {<<>>, <<"9">>, <<" 4 ", "x", "12", "">>}

\* want of import_selection: the stripped lines that are numbers
ImportWant(lines) ==
    {StrToInt(Strip(lines[k])) : k \in {n \in 1..Len(lines) : IsDigitStr(Strip(lines[n]))}}

\* import_selection with a file chosen
ImportSelection ==
    /\ GuiIdle
    /\ \E lines \in ImportFiles :
          list_widget' = [i \in 1..Len(list_widget) |->
                            [list_widget[i] EXCEPT !.checked =
                                /\ ImportIndex(list_widget[i].text) # <<>>
                                /\ ImportIndex(list_widget[i].text)[1] \in ImportWant(lines)]]
    /\ dynamic_option_widgets' = UpdateDynamicOptions(entries, list_widget')
    /\ UNCHANGED <<entries, picker>>
    /\ PickerFrame

(***************************************************************************)
(* SpecPicker: bundle e is loaded (patch 9; its record without an index is *)
(* not among the rows handle_list_patches sends); the user edits the       *)
(* selection in the picker dialog, imports selections, reloads and builds. *)
(***************************************************************************)
PickerInit ==
    /\ cli_jar = <<CliPath>> /\ rvp_file = <<RvpE>>
    /\ pkg_edit = ""
    /\ include_universal = TRUE
    /\ form = FormFilled
    /\ entries = FilterEntries(ToolEntries[RvpE], pkg_edit, include_universal)
    /\ list_widget = ItemsOf(entries, TRUE, {}, {})
    /\ _keep_idx = {} /\ _keep_name = {}
    /\ reset_select = FALSE
    /\ dynamic_option_widgets = UpdateDynamicOptions(entries, list_widget)
    /\ pb_busy = FALSE
    /\ timers = 0
    /\ drain_m = <<>>
    /\ qin = <<>> /\ qout = <<>>
    /\ wk_cmd = <<>>
    /\ ExtInit
    /\ lp_src = <<>> /\ lp_text = "" /\ lp_pkg = "" /\ lp_inc_univ = FALSE
    /\ lp_entries = <<>> /\ lp_rows = <<>> /\ lp_rows2 = <<>> /\ lp_pc = "off"

PickerNext ==
    \/ OpenPatchPicker \/ PickerToggle \/ PickerSelectAll \/ PickerUnselectAll
    \/ PickerSearch \/ PickerAccept \/ PickerReject
    \/ ImportSelection
    \/ ClickListPatches \/ OnBuild
    \/ WorkerListPatches \/ WorkerSetAdbPath \/ WorkerBuild \/ WorkerDone
    \/ DrainStep \/ DrainEnd

SpecPicker == PickerInit /\ [][PickerNext]_vars
(***************************************************************************)
(* The filter rules as the specification words them (section 4.2), used to *)
(* state the claims about handle_list_patches                              *)
(***************************************************************************)
Target == Strip(lp_pkg)
Indexed(e) == e.index # <<>>
Universal(e) == e.packages = <<>>
TargetIn(e) == \E i \in 1..Len(e.packages) : LowerStr(e.packages[i]) = LowerStr(Target)
Rule3(e, inc) == ~Universal(e) \/ inc
Rule4(e, inc) == TargetIn(e) \/ (Universal(e) /\ inc)
RulesKeep(e, inc) == Indexed(e) /\ IF Target = "" THEN Rule3(e, inc) ELSE Rule4(e, inc)
HasPkgInfo == \E i \in 1..Len(lp_entries) : lp_entries[i].packages # <<>>
FallbackApplies ==
    /\ Target # ""
    /\ \A i \in 1..Len(lp_entries) : ~RulesKeep(lp_entries[i], lp_inc_univ)
    /\ HasPkgInfo
Filtered == lp_pc \in {"filtered", "refiltered"}

\* C3: with a non-empty target p and include_universal = false, when no record
\* passes rule 4 and some record has packages, the rows returned are the rows
\* the filter returns for (p, include_universal = true); for the two records of
\* scenario 6 and p = com.other that is record 7 alone.
C3_FallbackRerunsFilter ==
    (Filtered /\ Target # "" /\ ~lp_inc_univ /\ HasPkgInfo
     /\ \A i \in 1..Len(lp_entries) : ~RulesKeep(lp_entries[i], FALSE))
    => /\ lp_rows = FilterEntries(lp_entries, lp_pkg, TRUE)
       /\ (lp_text = Scenario6Text /\ Target = "com.other"
           => Len(lp_rows) = 1 /\ lp_rows[1].index = <<7>>)

C3_Witness ==
    /\ lp_pc = "filtered" /\ lp_text = Scenario6Text
    /\ lp_pkg = "com.other" /\ ~lp_inc_univ
    /\ Len(lp_entries) = 2 /\ Len(lp_rows) = 1

\* C4: whenever the rule-5 fallback does not apply, the rows returned are
\* exactly, in parse order, the indexed records that rule 3 (empty target) or
\* rule 4 (non-empty target) keeps.
C4_ExactRules ==
    (Filtered /\ ~FallbackApplies)
    => lp_rows = SelectSeq(lp_entries, LAMBDA e : RulesKeep(e, lp_inc_univ))

\* C5: rule 1 excludes a record exactly when it has no index: every record
\* with an integer index, 0 included, that rules 3 to 5 keep is among the rows,
\* and no record without an index is.
C5_OnlyIndexlessDropped ==
    Filtered =>
        \A i \in 1..Len(lp_entries) :
            LET e == lp_entries[i]
            IN  /\ (RulesKeep(e, lp_inc_univ \/ FallbackApplies) => InSeq(e, lp_rows))
                /\ (~Indexed(e) => ~InSeq(e, lp_rows))

\* C6: the two-block input of spec scenario 6 parses to two records, the first
\* with index 3 and packages [com.foo.bar] (the version in parentheses is no
\* package), the second with index 7 and no packages.
C6_Scenario6 ==
    (lp_pc # "start" /\ lp_text = Scenario6Text)
    => /\ Len(lp_entries) = 2
       /\ lp_entries[1].index = <<3>>
       /\ lp_entries[1].packages = <<"com.foo.bar">>
       /\ lp_entries[2].index = <<7>>
       /\ lp_entries[2].packages = <<>>

\* C7: the parser returns one record per block that has a Name: field, in
\* input order; a block without one yields no record and leaves the records of
\* the other blocks alone; a missing Index, Description, Enabled or Packages
\* field leaves that field None (or the packages empty).
NamedBlocks == SelectSeq(lp_src, LAMBDA d : d.name # <<>>)

C7_OneRecordPerNamedBlock ==
    lp_pc # "start" =>
        /\ Len(lp_entries) = Len(NamedBlocks)
        /\ \A n \in 1..Len(NamedBlocks) :
             LET d == NamedBlocks[n]
                 e == lp_entries[n]
             IN  /\ e.name = d.name[1]
                 /\ e.index = d.idx
                 /\ e.enabled = d.en
                 /\ (d.desc = <<>> => e.description = <<>>)
                 /\ (d.pkgs = <<>> => e.packages = <<>>)

C7_Witness ==
    /\ lp_pc = "parsed"
    /\ Len(lp_src) = 2 /\ lp_src[1].name = <<>> /\ lp_src[1].idx # <<>>
    /\ Len(lp_entries) = 1
    /\ lp_entries[1].index = <<>> /\ lp_entries[1].enabled = <<>>

\* C10: with include_universal = true the filter is idempotent: applied to its
\* own output with the same target it returns that output unchanged.
C10_FilterIdempotent ==
    (lp_pc = "refiltered" /\ lp_inc_univ) => lp_rows2 = lp_rows

C10_Witness ==
    /\ lp_pc = "refiltered" /\ lp_inc_univ
    /\ lp_rows2 # <<>> /\ Len(lp_rows) < Len(lp_entries)
    /\ \E i \in 1..Len(lp_rows) : Universal(lp_rows[i])

(***************************************************************************)
(* Claims about the GUI: the build command and the selection over reloads  *)
(***************************************************************************)
\* a step of on_build that sends the build command, and that command
BuildSent == Len(qin') = Len(qin) + 2 /\ qin'[Len(qin')].cmd = "build"
SentCmdline == qin'[Len(qin')].cmdline

\* the argument vector holds a directly followed by b
HasPair(v, a, b) == \E n \in 1..(Len(v) - 1) : v[n] = a /\ v[n + 1] = b

\* C1: on_build puts "--ei", i into the argument vector for every item that is
\* checked and carries an index i, whatever the package field and the
\* include-universal box hold.
C1_EveryCheckedIndexIncluded ==
    [][BuildSent =>
         \A k \in 1..Len(list_widget) :
            (list_widget[k].checked /\ LabelIndex(list_widget[k].text) # <<>>)
            => HasPair(SentCmdline, "--ei", IntToStr(LabelIndex(list_widget[k].text)[1]))]_vars

\* a step of _drain_queues that applies a patches message
PatchesApplied == qout # <<>> /\ Head(qout).type = "patches" /\ qout' = Tail(qout)

\* the records of a patches message that get an item, in order
Listed(rows) == SelectSeq(rows, LAMBDA e : e.index # <<>>)

\* C2: when on_list_patches was entered with reset_select false, then once its
\* patches response is applied a record of the new list is checked iff its
\* index or its name is in the selection that call saved; the enabled-by-default
\* values never replace the selection.
C2_ReloadKeepsSelection ==
    [][(PatchesApplied /\ Head(qout).h_noreset) =>
         LET m == Head(qout)
         IN  /\ Len(list_widget') = Len(Listed(m.entries))
             /\ \A k \in 1..Len(list_widget') :
                   list_widget'[k].checked
                   <=> (Listed(m.entries)[k].index[1] \in m.h_keep.idx
                        \/ Listed(m.entries)[k].name \in m.h_keep.name)]_vars

\* C8: applying a patches message sets the check box of each listed record to
\* its enabled value when reset_select is true and to (index in _keep_idx or
\* name in _keep_name) otherwise, and leaves reset_select false.
C8_ApplySetsChecks ==
    [][PatchesApplied =>
         LET rows == Listed(Head(qout).entries)
         IN  /\ Len(list_widget') = Len(rows)
             /\ \A k \in 1..Len(rows) :
                   list_widget'[k].checked
                   <=> IF reset_select THEN rows[k].enabled = <<TRUE>>
                       ELSE (rows[k].index[1] \in _keep_idx \/ rows[k].name \in _keep_name)
             /\ reset_select' = FALSE]_vars

\* a patches message has just been applied without reset: an item is checked
\* whose record is not enabled by default, another record stays unchecked
C8_Witness ==
    /\ drain_m = <<"patches">> /\ ~reset_select
    /\ _keep_idx # {}
    /\ \E k \in 1..Len(list_widget) :
          list_widget[k].checked /\ Listed(entries)[k].enabled # <<TRUE>>

\* apply(records, state, false) as a checked set, and capture of its result
AppliedChecks(rows, kidx, kname) == CheckedItems(ItemsOf(rows, FALSE, kidx, kname))
Recaptured(rows, kidx, kname) == RememberSelection(ItemsOf(rows, FALSE, kidx, kname))
Reapplied(rows, kidx, kname) ==
    AppliedChecks(rows, Recaptured(rows, kidx, kname).idx, Recaptured(rows, kidx, kname).name)

\* a patches message is about to be applied without reset
ApplyPending == qout # <<>> /\ Head(qout).type = "patches" /\ ~reset_select

Unambiguous(rows) ==
    \A i, j \in 1..Len(Listed(rows)) :
        i # j => /\ Listed(rows)[i].index # Listed(rows)[j].index
                 /\ Listed(rows)[i].name # ExtractItemName(ItemLabel(Listed(rows)[j]))

BuildMsgs == {qin[n] : n \in {i \in 1..Len(qin) : qin[i].cmd = "build"}}

Positions(v, x) == {n \in 1..Len(v) : v[n] = x}

\* the index before the "_" of a widget key
WidgetIndex(widget_key) ==
    StrToInt(SubSeq(widget_key, 1,
                    Min({k \in 1..Len(widget_key) : Ch(widget_key, k) = "_"}) - 1))

\* entry e has an option with the bare key k
Exposes(e, k) == \E o \in 1..Len(e.options) : e.options[o].key = <<k>>

\* the indices of the checked items
SelectedIdx(items) ==
    {HeadIndex(items[c].text)[1] : c \in {d \in CheckedItems(items) : HeadIndex(items[d].text) # <<>>}}

\* no selected patch other than patch i exposes the bare key k
OnlyOwner(ents, items, i, k) ==
    \A n \in 1..Len(ents) :
        (ents[n].index # <<>> /\ ents[n].index[1] # i /\ ents[n].index[1] \in SelectedIdx(items))
        => ~Exposes(ents[n], k)

\* the vector holds "--ei", i and, somewhere after them, arg
AfterInclude(v, i, arg) ==
    \E n \in 1..(Len(v) - 1) :
        /\ v[n] = "--ei" /\ v[n + 1] = IntToStr(i)
        /\ \E p \in (n + 2)..Len(v) : v[p] = arg

\* C11: for every included patch i and every option key k of it whose widget
\* "i_k" gives a non-empty value val, no other selected patch exposing k, the
\* vector holds "-Ok=val" after "--ei", i.
C11_SuppliedOptionFollowsItsPatch ==
    \A m \in BuildMsgs :
        \A w \in 1..Len(m.h_in.widgets) :
            LET wk == m.h_in.widgets[w][1]
                val == WidgetValue(m.h_in.widgets[w][2])
            IN  (/\ val # ""
                 /\ InSeq(WidgetIndex(wk), m.includes_by_idx)
                 /\ OnlyOwner(m.h_in.ents, m.h_in.items, WidgetIndex(wk), OriginalKey(wk)))
                => AfterInclude(m.cmdline, WidgetIndex(wk),
                                "-O" \o OriginalKey(wk) \o "=" \o val)

\* patch 9 alone is checked and the user has typed 7 into its strength field
C11_Witness ==
    \E m \in BuildMsgs :
        /\ m.includes_by_idx = <<9>>
        /\ DictHas(m.h_in.widgets, "9_strength")
        /\ DictGet(m.h_in.widgets, "9_strength").text = "7"
        /\ AfterInclude(m.cmdline, 9, "-Ostrength=7")

\* C12: the vector starts with java -jar <cli> patch -p <bundle> --purge, then
\* --exclusive iff the exclusive box is checked and nowhere else, and it ends
\* with --temporary-files-path <temp dir> -o <output apk> <input apk>.
C12_FixedFrame ==
    \A m \in BuildMsgs :
        LET v == m.cmdline
            n == Len(v)
        IN  /\ n >= 12
            /\ SubSeq(v, 1, 7) = <<"java", "-jar", m.cli, "patch", "-p", m.rvp, "--purge">>
            /\ (m.h_in.f.exclusive <=> v[8] = "--exclusive")
            /\ Positions(v, "--exclusive") \subseteq {8}
            /\ SubSeq(v, n - 4, n)
               = <<"--temporary-files-path", m.tmp_base, "-o", m.out_apk, m.apk>>

\* the exclusive box is checked, two patches are included, a relative
\* temporary folder is given
C12_Witness ==
    \E m \in BuildMsgs :
        /\ m.h_in.f.exclusive
        /\ Len(m.includes_by_idx) >= 2
        /\ m.h_in.f.tmp_dir_edit = "tmp/w"
        /\ m.cmdline[8] = "--exclusive"

\* the four signing credentials on_build reads, and their flags
Credentials(f) == <<Strip(f.keystore_edit), Strip(f.ks_pass), Strip(f.alias), Strip(f.alias_pass)>>
SigningFlags ==
    <<"--keystore", "--keystore-password", "--keystore-entry-alias",
      "--keystore-entry-password">>

\* a patch or option argument
IsPatchArg(a) == a \in {"--ei", "-e"} \/ StartsWith(a, "-O")

\* C13: each signing flag appears, once and followed by its value, iff its
\* credential is not empty; the flags that appear keep their order, come after
\* every patch and option argument and before --temporary-files-path.
C13_SigningFlagsIndependent ==
    \A m \in BuildMsgs :
        LET v == m.cmdline
            n == Len(v)
            c == Credentials(m.h_in.f)
            at(j) == Positions(v, SigningFlags[j])
        IN  /\ \A j \in 1..4 :
                  /\ (c[j] # "") <=> (at(j) # {})
                  /\ Cardinality(at(j)) <= 1
                  /\ \A p \in at(j) :
                        /\ v[p + 1] = c[j]
                        /\ p + 1 < n - 4
                        /\ \A q \in (p + 1)..n : ~IsPatchArg(v[q])
            /\ \A j, k \in 1..4 : j < k => \A p \in at(j), q \in at(k) : p < q

\* a password without a keystore and an alias without its password, behind
\* patch and option arguments
C13_Witness ==
    \E m \in BuildMsgs :
        /\ Credentials(m.h_in.f) = <<"", "pw", "key0", "">>
        /\ m.includes_by_idx # <<>>
        /\ HasPair(m.cmdline, "--keystore-password", "pw")
        /\ HasPair(m.cmdline, "--keystore-entry-alias", "key0")

\* the widgets on_build read whose bare key no other widget has
SoleWidgets(m) ==
    {w \in 1..Len(m.h_in.widgets) :
        \A x \in 1..Len(m.h_in.widgets) :
            x # w => OriginalKey(m.h_in.widgets[x][1]) # OriginalKey(m.h_in.widgets[w][1])}

\* the value the claim expects for the text of a field: a list-typed field
\* keeps a bracketed text and gets brackets around any other text, a scalar
\* field keeps its text
VerbatimValue(w) ==
    IF w.is_list_type
    THEN IF IsListLiteral(w.text) THEN w.text ELSE "[" \o w.text \o "]"
    ELSE w.text

\* C14: the value compiled for an option field is its text when the option is
\* scalar or the text is already a bracketed list (nested lists included), and
\* the text in brackets when the user removed the brackets of a list.
C14_ListValuesRewrappedVerbatim ==
    \A m \in BuildMsgs :
        \A w \in SoleWidgets(m) :
            VerbatimValue(m.h_in.widgets[w][2]) # ""
            => /\ DictHas(m.options, OriginalKey(m.h_in.widgets[w][1]))
               /\ DictGet(m.options, OriginalKey(m.h_in.widgets[w][1]))
                  = VerbatimValue(m.h_in.widgets[w][2])

NoChangePkgPatch(ents, items) ==
    \A k \in CheckedItems(items) : LowerStr(Listed(ents)[k].name) # "change package name"

\* C16: a run of on_build with a change-package-name value and no checked
\* patch named "Change package name" logs the warning and sends the build
\* command, and the vector of the command holds -OpackageName=<value>.
C16_MissingPatchOnlyWarns ==
    [][(/\ GuiIdle /\ CanBuild /\ pb_busy' /\ ~pb_busy
        /\ Strip(form.change_pkg_input) # "" /\ NoChangePkgPatch(entries, list_widget))
       => /\ BuildSent
          /\ qin'[Len(qin')].h_warned
          /\ InSeq("-OpackageName=" \o Strip(form.change_pkg_input), SentCmdline)]_vars

\* a package name is given, patch 5 is listed and not checked
C16_Witness ==
    \E m \in BuildMsgs :
        /\ Strip(m.h_in.f.change_pkg_input) = "com.foo.clone"
        /\ Len(m.h_in.items) = 3
        /\ NoChangePkgPatch(m.h_in.ents, m.h_in.items)
        /\ m.h_warned
        /\ m.includes_by_idx # <<>>

\* C18: no option widget has the key packageName, updatePermissions or
\* updateProviders; in the flattened option map each of the three keys is
\* there iff its dedicated control is set, with the value of that control.
C18_ReservedKeysOnlyFromControls ==
    /\ \A w \in 1..Len(dynamic_option_widgets) :
          OriginalKey(dynamic_option_widgets[w][1])
          \notin {"packageName", "updatePermissions", "updateProviders"}
    /\ \A m \in BuildMsgs :
          /\ DictHas(m.options, "packageName") <=> Strip(m.h_in.f.change_pkg_input) # ""
          /\ DictHas(m.options, "packageName")
             => DictGet(m.options, "packageName") = Strip(m.h_in.f.change_pkg_input)
          /\ DictHas(m.options, "updatePermissions") <=> m.h_in.f.update_perms
          /\ DictHas(m.options, "updatePermissions")
             => DictGet(m.options, "updatePermissions") = "true"
          /\ DictHas(m.options, "updateProviders") <=> m.h_in.f.update_providers
          /\ DictHas(m.options, "updateProviders")
             => DictGet(m.options, "updateProviders") = "true"

\* patch 5, whose options have the reserved keys, is checked and built with
\* no package name given and update-permissions off
C18_Witness ==
    \E m \in BuildMsgs :
        /\ InSeq(5, m.includes_by_idx)
        /\ ~DictHas(m.options, "packageName")
        /\ ~DictHas(m.options, "updatePermissions")
        /\ m.h_in.widgets # <<>>

\* the position in the record list of the entry with index i
RecordPos(ents, i) == Min({n \in 1..Len(ents) : ents[n].index = <<i>>})

\* C19: when two checked patches expose the same bare key, the flattened map
\* holds for it the value entered for the patch that comes later in the record
\* list, and the value entered for the earlier patch is not in the vector.
C19_LaterPatchWins ==
    \A m \in BuildMsgs :
        \A a, b \in 1..Len(m.h_in.widgets) :
            LET ka == m.h_in.widgets[a][1]
                kb == m.h_in.widgets[b][1]
                va == WidgetValue(m.h_in.widgets[a][2])
                vb == WidgetValue(m.h_in.widgets[b][2])
            IN  (/\ OriginalKey(ka) = OriginalKey(kb)
                 /\ RecordPos(m.h_in.ents, WidgetIndex(ka)) < RecordPos(m.h_in.ents, WidgetIndex(kb)))
                => /\ DictHas(m.options, OriginalKey(kb)) => DictGet(m.options, OriginalKey(kb)) = vb
                   /\ va # vb => ~InSeq(OptionArg(OriginalKey(ka), va), m.cmdline)

\* the slots of the per-index section that belong to key k: an included index
\* and a place of k among the option keys of its patch
OwnerSlots(m, k) ==
    {s \in (1..Len(m.includes_by_idx)) \X (1..Len(m.h_in.ents) + 8) :
        /\ s[2] <= Len(IndexOptionKeys(m.h_in.ents, m.includes_by_idx[s[1]]))
        /\ IndexOptionKeys(m.h_in.ents, m.includes_by_idx[s[1]])[s[2]] = k}

\* C20: every key of the flattened option map is emitted once for each
\* included patch that owns it, after the --ei of that patch, and then not
\* again; a key no included patch owns is emitted exactly once, after every
\* --ei.
C20_EachKeyEmittedInOneSection ==
    \A m \in BuildMsgs :
        \A n \in 1..Len(m.options) :
            LET k == m.options[n][1]
                arg == IF m.options[n][2] = "" THEN "-O" \o k
                       ELSE "-O" \o k \o "=" \o m.options[n][2]
                at == Positions(m.cmdline, arg)
            IN  IF OwnerSlots(m, k) # {}
                THEN /\ Cardinality(at) = Cardinality(OwnerSlots(m, k))
                     /\ \A s \in OwnerSlots(m, k) :
                           AfterInclude(m.cmdline, m.includes_by_idx[s[1]], arg)
                ELSE /\ Cardinality(at) = 1
                     /\ \A p \in at : \A q \in Positions(m.cmdline, "--ei") : q < p

\* patch 5 is included and owns packageName; updateProviders is owned by no
\* patch; the strength field of a checked patch that is not included has a value
C20_Witness ==
    \E m \in BuildMsgs :
        /\ InSeq(5, m.includes_by_idx)
        /\ ~InSeq(9, m.includes_by_idx)
        /\ DictHas(m.options, "packageName")
        /\ DictHas(m.options, "updateProviders")
        /\ DictHas(m.options, "strength")

(***************************************************************************)
(* Claims about handle_build                                               *)
(***************************************************************************)
\* a step in which worker_loop hands a build command to handle_build, and the
\* messages that step puts on the output queue
BuildHandled == WorkerHas("build") /\ wk_cmd' = <<"build">>
Emitted == SubSeq(qout', Len(qout) + 1, Len(qout'))

OfType(e, t) == {n \in 1..Len(e) : e[n].type = t}
LogsOf(e, text) == {n \in 1..Len(e) : e[n].type = "log" /\ e[n].text = text}

\* C17: handling a build command gives one build_begin and, after it, one
\* build_end; the tool is run at most once; build_ok is sent iff the tool exits
\* with 0, and otherwise one fail message is sent, which carries the exit code
\* when the tool exited; the clean-up comes after the run and before build_end.
C17_OneRunOneVerdict ==
    [][BuildHandled =>
         LET e == Emitted
             code == e[Max(OfType(e, "build_end") \cup {1})].h_exit
         IN  /\ Cardinality(OfType(e, "build_begin")) = 1
             /\ Cardinality(OfType(e, "build_end")) = 1
             /\ \A b \in OfType(e, "build_begin") : \A x \in OfType(e, "build_end") : b < x
             /\ Cardinality(LogsOf(e, ToolLine)) = (IF code = <<>> THEN 0 ELSE 1)
             /\ (OfType(e, "build_ok") # {}) <=> (code = <<0>>)
             /\ Cardinality(OfType(e, "build_ok")) <= 1
             /\ Cardinality(OfType(e, "fail")) = (IF code = <<0>> THEN 0 ELSE 1)
             /\ \A n \in OfType(e, "fail") :
                   code # <<>> => e[n].error = "code=" \o IntToStr(code[1])
             /\ Cardinality(LogsOf(e, "[CLEAN]")) = 1
             /\ \A c \in LogsOf(e, "[CLEAN]") :
                   /\ \A x \in OfType(e, "build_end") : c < x
                   /\ \A r \in LogsOf(e, ToolLine) \cup OfType(e, "build_ok") : r < c]_vars

\* the tool has exited with code 2: its failure is reported between build_begin
\* and build_end
C17_Witness ==
    /\ wk_cmd = <<"build">>
    /\ \E b, n, x \in 1..Len(qout) :
          /\ b < n /\ n < x
          /\ qout[b].type = "build_begin"
          /\ qout[n].type = "fail" /\ qout[n].error = "code=2"
          /\ qout[x].type = "build_end" /\ qout[x].h_exit = <<2>>

(***************************************************************************)
(* Claims about reloads of the patch list with several requests under way  *)
(***************************************************************************)
\* a step that puts a list_patches command on the input queue
ListRequested == Len(qin') = Len(qin) + 1 /\ qin'[Len(qin')].cmd = "list_patches"

\* the selections saved with the list_patches requests still under way, oldest
\* first: the answers waiting on the output queue, then the commands waiting
\* on the input queue
CapturesUnderWay ==
    LET answers == SelectSeq(qout, LAMBDA m : "h_keep" \in DOMAIN m)
        commands == SelectSeq(qin, LAMBDA m : m.cmd = "list_patches")
    IN  [i \in 1..Len(answers) |-> answers[i].h_keep]
        \o [i \in 1..Len(commands) |-> commands[i].h_keep]

Saved == [idx |-> _keep_idx, name |-> _keep_name]

\* C21: a list_patches command is put on the queue only by a step that saves
\* the selection of the list then displayed and leaves that list alone, and
\* no other step touches the saved selection; so as long as a request is
\* under way, and in particular when a patches message is applied,
\* _keep_idx/_keep_name hold the selection of the most recent request.
C21_CaptureBeforeReload ==
    /\ [](CapturesUnderWay # <<>> => Saved = CapturesUnderWay[Len(CapturesUnderWay)])
    /\ [][/\ ListRequested =>
               /\ UNCHANGED <<entries, list_widget>>
               /\ _keep_idx' = RememberSelection(list_widget).idx
               /\ _keep_name' = RememberSelection(list_widget).name
          /\ ~ListRequested => UNCHANGED <<_keep_idx, _keep_name>>
          /\ (PatchesApplied /\ ~reset_select) =>
               list_widget' = ItemsOf(Head(qout).entries, FALSE,
                                      CapturesUnderWay[Len(CapturesUnderWay)].idx,
                                      CapturesUnderWay[Len(CapturesUnderWay)].name)]_vars

\* a patches message is about to be applied without reset while a later
\* request, made on another selection, is under way
C21_Witness ==
    /\ qout # <<>> /\ Head(qout).type = "patches" /\ ~reset_select
    /\ Len(CapturesUnderWay) > 1
    /\ Head(qout).h_keep # Saved
    /\ Saved.idx # {}

\* a step of worker_loop that takes a list_patches command, and what a step
\* of the worker puts on the output queue
ListHandled == WorkerHas("list_patches") /\ wk_cmd' = <<"list_patches">>
Put == SubSeq(qout', Len(qout) + 1, Len(qout'))

\* a step of _drain_queues that takes the answer to a failed list_patches
\* command: its fail message or a done message
FailureDrained ==
    /\ qout # <<>> /\ qout' = Tail(qout)
    /\ \/ Head(qout).type = "done"
       \/ Head(qout).type = "fail" /\ "h_tool_ok" \in DOMAIN Head(qout)

\* C22: when the list-patches tool exits with a non-zero code the worker puts
\* one fail message and then done, and no patches message; neither the
\* request nor the worker's step nor the handling of these two messages
\* changes entries or an item of the list.
C22_ListFailureChangesNothing ==
    [][/\ (ListHandled /\ ~qout'[Len(qout')].h_tool_ok) =>
             /\ Len(Put) = 1 /\ Put[1].type = "fail"
             /\ UNCHANGED <<entries, list_widget>>
       /\ (wk_cmd = <<"list_patches">> /\ Len(qout') > Len(qout)) =>
             /\ Put = <<[type |-> "done"]>>
             /\ wk_cmd' = <<>>
             /\ UNCHANGED <<entries, list_widget>>
       /\ (ListRequested \/ FailureDrained) => UNCHANGED <<entries, list_widget>>]_vars

\* the fail message of a list_patches command has just been handled: the list
\* still has its items, one of them checked
C22_Witness ==
    /\ drain_m = <<"fail">>
    /\ ~pb_busy
    /\ entries # <<>>
    /\ \E k \in 1..Len(list_widget) : list_widget[k].checked

\* no list_patches command and no patches message is under way
ReloadsSettled ==
    /\ timers = 0
    /\ \A i \in 1..Len(qin) : qin[i].cmd # "list_patches"
    /\ \A i \in 1..Len(qout) : qout[i].type # "patches"

\* C23: the preset has been applied (the exclusive box, off in the form as
\* filled in, is on), a patches message has been applied since (reset_select
\* is false again) and no further one is under way: every listed record is
\* checked iff it is enabled by default.
C23_PresetResetsSelection ==
    (form.exclusive /\ ~reset_select /\ ReloadsSettled)
    => list_widget = ItemsOf(entries, TRUE, {}, {})

(***************************************************************************)
(* Claims about worker_loop: install commands, every command, shutdown     *)
(***************************************************************************)
HasCmd(q, cmd) == \E i \in 1..Len(q) : q[i].cmd = cmd
CountType(q, t) == Cardinality({i \in 1..Len(q) : q[i].type = t})

\* the worker of worker.py, and the one of revanced_gui.py, is through with
\* the install command
NewLoopThrough == wk_cmd = <<>> /\ \A c \in InstallCmds : ~HasCmd(qin, c)
OldLoopThrough == \A c \in InstallCmds : ~HasCmd(lg_qin, c)

\* C25: given the same install command in the same environment, the two
\* worker loops put as many fail and as many done messages, ask for the
\* follow-up env_check in the same cases, and do so only after a successful
\* installation.
C25_InstallLoopsAgree ==
    /\ (NewLoopThrough /\ OldLoopThrough) =>
          /\ CountType(qout, "fail") = CountType(lg_qout, "fail")
          /\ CountType(qout, "done") = CountType(lg_qout, "done")
          /\ HasCmd(qin, "env_check") <=> HasCmd(lg_qin, "env_check")
    /\ (NewLoopThrough /\ ~OldLoopThrough) =>
          (HasCmd(qin, "env_check") <=> Head(lg_qin).h_env.result = "ok")

\* a step of worker_loop that takes a command, and the place in what it puts
\* of the report of the except clause
Taken == wk_cmd = <<>> /\ wk_cmd' # <<>>
Reports(put, cmd) ==
    {n \in 1..Len(put) : put[n].type = "fail" /\ put[n].error = WorkerError(cmd)}

\* the handler called for msg raises
HandlerRaises(msg, put) ==
    \/ msg.cmd \in InstallCmds /\ HandleInstall(msg).raised
    \/ msg.cmd = "list_patches" /\ \E n \in 1..Len(put) : "h_tool_ok" \in DOMAIN put[n]
                                                         /\ ~put[n].h_tool_ok
    \/ msg.cmd = "build" /\ \E n \in 1..Len(put) : put[n].type = "build_end"
                                                  /\ put[n].h_exit = <<>>

QueueTaken == qin' # qin /\ qin' # qin \o <<[cmd |-> "adb_kill"], NoneMsg>>

\* C27: once closeEvent has put adb_kill and None on the queue the loop
\* returns in the end; the worker takes the head of the queue only, one
\* command at a time, returns only on taking None, and after that takes and
\* puts nothing more, whatever waits behind the None.
C27_ShutdownDrainsThenStops ==
    /\ Closed ~> wk_exit
    /\ [][/\ QueueTaken =>
               /\ ~wk_exit /\ wk_cmd = <<>>
               /\ qin' \in {Tail(qin), Append(Tail(qin), [cmd |-> "env_check"])}
               /\ IF Head(qin) = NoneMsg THEN wk_exit' /\ wk_cmd' = <<>>
                  ELSE ~wk_exit' /\ wk_cmd' = <<Head(qin).cmd>>
          /\ (~wk_exit /\ wk_exit') => (qin # <<>> /\ Head(qin) = NoneMsg)
          /\ wk_exit => (wk_exit' /\ UNCHANGED <<qin, qout, wk_cmd>>)]_vars

\* the loop has returned after it handled an install command and adb_kill;
\* the follow-up check of the install command waits behind the None for ever
C27_Witness ==
    /\ wk_exit
    /\ qin = <<[cmd |-> "env_check"]>>
    /\ CountType(qout, "done") = 2

(***************************************************************************)
(* Claims about the installation after a build                             *)
(***************************************************************************)
\* C26: from the moment _drain_queues has put adb_install_apk on the queue
\* the progress bar is busy as long as that command waits there (nothing
\* that completes it exists before the worker takes it).
C26_BusyWhileInstallWaits == HasCmd(qin, "adb_install_apk") => pb_busy

\* a step of worker_loop that takes adb_install_apk
AdbInstallHandled == WorkerHas("adb_install_apk") /\ wk_cmd' = <<"adb_install_apk">>

\* every listed device is ready, and there is one
DevicesReady(devs) == devs # <<>> /\ \A i \in 1..Len(devs) : devs[i].state = "device"

\* C30: handle_adb_install_apk puts adb_install_ok (once) exactly when the
\* APK is there, adb is there, at least one device is listed and every listed
\* device is in state "device", a serial was given or one device is listed,
\* and "adb install" exits with 0 and has "success" in its output; when the
\* APK is missing, the devices are not ready, or several devices are listed
\* and no serial was given, "adb install" is not run.
C30_InstallOkOnlyWhenAllHeld ==
    [][AdbInstallHandled =>
         LET env == Put[1].h_env
             serial == Strip(Head(qin).serial)
             ready == env.adb_ok /\ DevicesReady(env.devs)
             aimed == serial # "" \/ Len(env.devs) = 1
             succeeded == /\ env.install.code = 0
                          /\ env.install.txt = "Performing Streamed Install\nSuccess\n"
         IN  /\ CountType(Put, "adb_install_ok")
                = (IF env.apk_exists /\ ready /\ aimed /\ succeeded THEN 1 ELSE 0)
             /\ Put[1].h_ran <=> (env.apk_exists /\ ready /\ aimed)
             /\ CountType(Put, "adb_install_ok") + CountType(Put, "fail") <= 1]_vars

\* the installation went to the device named in the device field while two
\* devices were listed, and the GUI has been told
C30_Witness ==
    \E i, j \in 1..Len(qout) :
       /\ i < j
       /\ "h_env" \in DOMAIN qout[i] /\ Len(qout[i].h_env.devs) = 2 /\ qout[i].h_ran
       /\ qout[j].type = "adb_install_ok" /\ qout[j].serial = "S2"

(***************************************************************************)
(* Claims about the picker dialog and the import of a selection            *)
(***************************************************************************)
\* C28: the items of the main patch list are, in order, those of the records
\* of self.entries that have an index, each labelled "[index] name" (then the
\* packages); so whatever reloads, picker edits and imports have done,
\* on_build would find no include by name, and no build command that on_build
\* has sent carries one or has "-e" in its argument vector.
C28_NoIncludeByName ==
    /\ Len(list_widget) = Len(Listed(entries))
    /\ \A k \in 1..Len(list_widget) :
          /\ list_widget[k].text = ItemLabel(Listed(entries)[k])
          /\ LabelIndex(list_widget[k].text) = Listed(entries)[k].index
    /\ IncludesByName(entries, list_widget, pkg_edit, include_universal) = <<>>
    /\ \A m \in BuildMsgs : m.includes_by_name = <<>> /\ ~InSeq("-e", m.cmdline)

\* a build was sent with patch 9 included after the picker dialog had
\* unticked it and an import had checked it again
C28_Witness ==
    \E m \in BuildMsgs :
       /\ \E i \in 1..Len(m.h_in.ents) :
             m.h_in.ents[i].index = <<9>> /\ m.h_in.ents[i].enabled = <<FALSE>>
       /\ m.includes_by_idx = <<9>>
       /\ InSeq("--ei", m.cmdline)

\* the dialog's record of the item with this text, if it has one
RowsOfItem(text) ==
    {i \in 1..Len(picker[1].rows) : picker[1].rows[i].index = LabelIndex(text)}

\* C29: a step that closes the picker dialog and changes the check states
\* (the dialog was accepted) leaves every item with the state its entry has
\* in the dialog, shown in the table or not.
C29_AcceptKeepsHiddenEntries ==
    [][(picker # <<>> /\ picker' = <<>> /\ list_widget' # list_widget) =>
         \A k \in 1..Len(list_widget) :
            \A i \in RowsOfItem(list_widget[k].text) :
               list_widget'[k].checked = (picker[1].rows[i].enabled = <<TRUE>>)]_vars
====
